---- MODULE Spec2Model ----
(***************************************************************************)
(* State-machine model of hypomnemata's durable index (SQLiteIndex over a  *)
(* Vault of note files) and of its file watcher (DebounceHandler and       *)
(* watch_vault).                                                           *)
(***************************************************************************)
EXTENDS Integers, FiniteSets, Sequences, TLC

\* ------------------------------------------------------------------ bounds
\* file changes and index operations in one behaviour
MaxOps == 3
\* filesystem events delivered to the watcher in one behaviour
MaxEvents == 2
\* the clock stops at MaxTime; time is counted in units of 50 ms
MaxTime == 8
\* lines of a note body handed to the slicer
MaxLines == 3
\* tokens of the text between [[ and ]]
MaxInner == 6
\* entries of a note's core/aliases list
MaxAliases == 2
\* the clock of the index file stops at MaxStamp seconds
MaxStamp == 3
\* items of an import plan
MaxItems == 2
\* the largest counter of an id f"{base_id}_{counter}" the vault holds before the import
MaxSuffix == 1
\* rollbacks run on one manifest
MaxRollbacks == 2

\* debounce_ms, default 150 ms
DebounceUnits == 3
\* time.sleep(0.1) of the main loop
SleepUnits == 2

\* the note ids (file stems) of the vault: a note and another note
Ids == {1, 2}

\* ------------------------------------------------------- note files (vault)
\* A file's text is described by the features the indexer depends on:
\*   plain    body without blocks or links, no front matter
\*   link     front matter with core/aliases: [x]; body "see [[1]]"
\*   fence    body holding one fenced code block
\*   badyaml  front matter that yaml.safe_load rejects
NoText == [kind |-> "none", dst |-> 0]
Texts ==
  {[kind |-> k, dst |-> 0] : k \in {"plain", "fence", "badyaml"}} \cup {[kind |-> "link", dst |-> 1]}

\* st_size of the file
Size(text) ==
  CASE text.kind = "plain" -> 1
    [] text.kind = "link" -> 2
    [] text.kind = "fence" -> 3
    [] text.kind = "badyaml" -> 4
    [] OTHER -> 0

NoFile == [mtime |-> -1, text |-> NoText]
\* st_mtime_ns is the time of the last write: 0 for the files the vault starts with,
\* then one tick per later change of the vault
Files == [mtime : {0}, text : Texts]

\* fields of the Block dataclass
BlockFields == {"kind", "range", "label", "heading_text", "fence_info"}

\* ------------------------------------------------------------- index tables
NoHash == NoText
NoRow == [mtime |-> -1, size |-> 0, hash |-> NoHash, title |-> "", has_math |-> 0]
EmptyDb ==
  [notes |-> [i \in Ids |-> NoRow], blocks |-> {}, links |-> {}, kv |-> {}, fts |-> {}]

NoCounts ==
  [scanned |-> 0, dirty |-> 0, inserted |-> 0, updated |-> 0, removed |-> 0, failed |-> 0]
NoOp == [name |-> "none", full |-> FALSE, use_hash |-> FALSE, changed |-> {}, deleted |-> {}]
NoNote == [blocks |-> {}, links |-> {}, aliases |-> {}, raw |-> NoText,
           mtime |-> 0, size |-> 0, hash |-> NoHash, title |-> "", has_math |-> 0]

VARIABLES
  files,      \* vault directory: id -> file or NoFile
  db,         \* committed contents of the index, as any connection reads them
  tx,         \* contents as seen by the indexer's connection inside its transaction
  pc,         \* position of the indexer
  op,         \* the running operation and its arguments
  todo,       \* ids the main loop has not visited yet
  db_ids,     \* db_ids as computed by the running operation
  counts,     \* counts dictionary of the running operation
  cur,        \* note_id of the running _index_note, 0 when none
  note,       \* note and file stats loaded by the running _index_note
  success,    \* return value of the last _index_note
  pre,        \* history: db when the running operation started
  upre,       \* history: db when the running _index_note started
  attempted,  \* history: ids handed to _index_note by the running operation
  failedIds,  \* history: ids whose _index_note returned False in the running operation
  failedAt,   \* history: where the last _index_note failed: "load", "begin", or
              \* "rollback" (inside the transaction), "none" when it did not
  undone,     \* history: the rollback discarded statements that had taken effect
  last,       \* history: id when the operation that ran directly before the current
              \* update_notes({}, {id}) was update_notes({id}, {}) on an id without
              \* rows, else 0
  edits,      \* number of file changes so far
  runs,       \* number of index operations started so far
  okrun       \* history: the last operation returned with no failed note, and no
              \* file has changed since it returned

ivars == <<files, db, tx, pc, op, todo, db_ids, counts, cur, note, success,
           pre, upre, attempted, failedIds, failedAt, undone, last, edits, runs, okrun>>

VARIABLES
  added,            \* DebounceHandler.added
  modified,         \* DebounceHandler.modified
  deleted,          \* DebounceHandler.deleted
  last_event_time,  \* DebounceHandler.last_event_time
  now,              \* time.time()
  running,          \* watch_vault's running flag
  tpc,              \* position of the main thread (the debounce ticker)
  wakeAt,           \* earliest time at which the main thread's sleep returns
  after,            \* where the main thread continues when flush returns
  changed,          \* flush's local variable changed
  rpc,              \* position of the observer thread (the event receiver)
  ev,               \* the event the observer thread is handling
  call,             \* arguments of the most recent on_batch call
  recorded,         \* history: added | modified and deleted when flush read them
  late,             \* history: events recorded while flush was between reading the
                    \* sets and clearing them, not passed to on_batch so far
  nev,              \* number of events delivered so far
  quiet,            \* watch_vault's quiet argument
  json_output,      \* watch_vault's json_output argument
  count,            \* SELECT COUNT(*) FROM notes as read at startup, -1 before
  rebuilt,          \* the initial index.rebuild(full=True) was run
  out,              \* what the last handle_batch printed
  raised,           \* index.update_notes raised in the last handle_batch
  erred,            \* index.update_notes raised in some handle_batch so far
  cancelled_run     \* the index operation (its number in runs) during which SIGINT
                    \* or SIGTERM reached signal_handler, 0 when none

wvars == <<added, modified, deleted, last_event_time, now, running, tpc, wakeAt, after,
           changed, rpc, ev, call, recorded, late, nev, quiet, json_output, count,
           rebuilt, out, raised, erred, cancelled_run>>

\* ------------------------------------------------------- Vault and a reader
VARIABLES
  wpc,    \* position of FsStorage.write_raw: "idle", or "open" once the file is opened
  wjob,   \* the write under way: the id, the contents to write and the caller
  wold,   \* the file as it was when the write under way began
  got,    \* what the last read_raw of a reader returned, and what it could return
  vdel,   \* the id Vault.delete returned for last, 0 when none or written again
  vreb    \* a rebuild has run since then

vvars == <<wpc, wjob, wold, got, vdel, vreb>>

\* ------------------------------------------------------------------- slicer
VARIABLES
  sraw,     \* note.body.raw of the note handed to slice_by_anchor, as its lines
  sanchor,  \* the anchor handed to slice_by_anchor
  sres,     \* what the call returned, or that it raised
  spc,      \* "call" before the call, "done" after it, "none" when there is none
  sparsed,  \* what MarkdownParser.parse returned for the text, or that it raised
  sok,      \* what DefaultResolver.anchor_ok returned: "true", "false", "raised"
  linner,   \* the text between [[ and ]] handed to _parse_target, as its tokens
  ltarget,  \* the LinkTarget that _parse_target returned
  lpc       \* "call" before that call, "done" after it, "none" when there is none

svars == <<sraw, sanchor, sres, spc, sparsed, sok, linner, ltarget, lpc>>

\* ------------------------------------------------------- resolver and importer
VARIABLES
  rindex,   \* the index resolve_target reads: each note's title and core/aliases list
  rmode,    \* resolver_mode
  rprefer,  \* prefer
  rres,     \* what resolve_target returned: a note id, 0 for None
  rcall,    \* "call" before the call, "done" after it, "none" when there is none
  dbfile,   \* the file at db_path: absent, a database, or a damaged file
  backups,  \* the timestamps of the .bad-<timestamp>.sqlite files next to it
  clock,    \* int(time.time())
  olast,    \* the operation that has just opened the index, and how it ended
  isrc,     \* the files of the import's source directory: relative path -> content
  idst,     \* the note files of the destination vault: note id -> content
  imanifest,\* the entries of the ImportManifest apply_import returned
  icall,    \* the call of apply_import: its arguments and how it ended
  ipre,     \* history: the source files and the vault before apply_import
  irolled   \* history: the rollbacks run on the manifest, and the files after the first

pvars == <<isrc, idst, imanifest, icall, ipre, irolled>>

mvars == <<rindex, rmode, rprefer, rres, rcall, dbfile, backups, clock, olast, pvars>>

vars == <<ivars, wvars, vvars, svars, mvars>>

\* the contents of a file that was opened for writing and not written yet, or that
\* was written with ""
EmptyText == [kind |-> "empty", dst |-> 0]
NoJob == [id |-> 0, text |-> NoText, by |-> "none"]
NoRead == [id |-> 0, text |-> NoText, old |-> NoText, new |-> NoText]

\* no Vault.put, Vault.delete or reader is at work
VaultAtRest ==
  /\ wpc = "idle"
  /\ wjob = NoJob
  /\ wold = [mtime |-> -1, text |-> NoText]
  /\ got = NoRead
  /\ vdel = 0
  /\ vreb = FALSE

\* ------------------------------------------------------------ watcher values
NoEvent == [kind |-> "none", is_directory |-> FALSE,
            name |-> [prefix |-> "", stem |-> 0, suffix |-> ""]]
NoCall == [made |-> FALSE, changed |-> {}, deleted |-> {}]
NoRecord == [changed |-> {}, deleted |-> {}]

\* final path segments of the events: <id>.md, and for stem 1 a hidden file, an
\* Emacs lock file, a backup file, a Vim swap file and a file of another type
Names ==
  {[prefix |-> "", stem |-> i, suffix |-> ".md"] : i \in Ids}
    \cup {[prefix |-> ".", stem |-> 1, suffix |-> ".md"],
          [prefix |-> ".#", stem |-> 1, suffix |-> ".md"],
          [prefix |-> "", stem |-> 1, suffix |-> ".md~"],
          [prefix |-> "", stem |-> 1, suffix |-> ".swp"],
          [prefix |-> "", stem |-> 1, suffix |-> ".txt"]}

Events == [kind : {"created", "modified", "deleted"}, is_directory : BOOLEAN, name : Names]

\* the watcher before watch_vault is called: the state of these variables in the
\* behaviours of the index alone
WatchAtRest ==
  /\ added = {}
  /\ modified = {}
  /\ deleted = {}
  /\ last_event_time = 0
  /\ now = 0
  /\ running = FALSE
  /\ tpc = "none"
  /\ wakeAt = 0
  /\ after = "none"
  /\ changed = {}
  /\ rpc = "none"
  /\ ev = NoEvent
  /\ call = NoCall
  /\ recorded = NoRecord
  /\ late = {}
  /\ nev = 0
  /\ quiet = FALSE
  /\ json_output = FALSE
  /\ count = -1
  /\ rebuilt = FALSE
  /\ out = "none"
  /\ raised = FALSE
  /\ erred = FALSE
  /\ cancelled_run = 0

\* the index and the vault in the behaviours of the watcher alone
IndexAtRest ==
  /\ files = [i \in Ids |-> NoFile]
  /\ db = EmptyDb
  /\ tx = EmptyDb
  /\ pc = "idle"
  /\ op = NoOp
  /\ todo = {}
  /\ db_ids = {}
  /\ counts = NoCounts
  /\ cur = 0
  /\ note = NoNote
  /\ success = FALSE
  /\ pre = EmptyDb
  /\ upre = EmptyDb
  /\ attempted = {}
  /\ failedIds = {}
  /\ failedAt = "none"
  /\ undone = FALSE
  /\ last = 0
  /\ edits = 0
  /\ runs = 0
  /\ okrun = FALSE

\* ------------------------------------------------- resolver and importer values
\* the notes of the index the resolver reads
RIds == {1, 2}
\* titles and aliases: the text that is resolved, and another one
Names2 == {"Match", "Other"}
AliasLists == UNION {[1..n -> Names2] : n \in 0..MaxAliases}
Indexes == [title : [RIds -> Names2], aliases : [RIds -> AliasLists]]

\* resolve_target is not being called
ResolveAtRest ==
  /\ rindex = [title |-> [i \in RIds |-> "Other"], aliases |-> [i \in RIds |-> <<>>]]
  /\ rmode = "both"
  /\ rprefer = "alias"
  /\ rres = 0
  /\ rcall = "none"

\* the file at db_path: no file; a database with its schema_version (0 when it has
\* no meta table) and the number of notes rows; a file whose header SQLite rejects;
\* a file with a good header and damaged pages behind it
Absent == [kind |-> "absent", version |-> 0, rows |-> 0]
Database(v, n) == [kind |-> "db", version |-> v, rows |-> n]
BadHeader == [kind |-> "bad_header", version |-> 0, rows |-> 0]
BadPages == [kind |-> "bad_pages", version |-> 0, rows |-> 0]
NoOpen == [op |-> "none", pre |-> "none", stamp |-> 0, raised |-> FALSE]

\* no operation is opening the index file
OpenAtRest ==
  /\ dbfile = Absent
  /\ backups = {}
  /\ clock = 1
  /\ olast = NoOpen

\* the files of the source directory an import plan names
SrcPaths == {"x.md", "y.md"}
\* the ids an import plan gives its items
Bases == {"a", "b"}
\* a note id of the destination vault: an id of the plan, or f"{base_id}_{counter}"
\* for n = counter > 0
DstIds == [base : Bases, n : 0..(MaxSuffix + MaxItems)]
PlanId(id) == [base |-> id, n |-> 0]
NoId == [base |-> "none", n |-> 0]
\* None for a path of a ManifestEntry
NoPath == "none"

\* a file's content: the id of its frontmatter and its body
SrcFile(path) == [id |-> NoId, body |-> path]
OldNote(id) == [id |-> id, body |-> "old"]
\* a directory is a function from the names of its files to their contents
NoFiles == <<>>
Exists(dir, name) == name \in DOMAIN dir
WriteTo(dir, name, content) ==
  [x \in DOMAIN dir \cup {name} |-> IF x = name THEN content ELSE dir[x]]
Unlink(dir, name) == [x \in DOMAIN dir \ {name} |-> dir[x]]

\* operation: "copy", "move", and "True", the value cmd_import_apply passes for --move
Operations == {"copy", "move", "True"}
OnConflict == {"skip", "new-id", "fail"}
ImportItems == [src : SrcPaths, id : Bases, status : {"ok", "error"}]
Plans == UNION {[1..n -> ImportItems] : n \in 0..MaxItems}

NoImport == [pc |-> "none", items |-> <<>>, operation |-> "copy", dry_run |-> FALSE,
           on_conflict |-> "fail", raised |-> "none", at |-> 0]
NoSnapshot == [src |-> NoFiles, dst |-> NoFiles]
NoRollback == [n |-> 0, first |-> NoSnapshot]

\* nothing is being imported
ImportAtRest ==
  /\ isrc = NoFiles
  /\ idst = NoFiles
  /\ imanifest = <<>>
  /\ icall = NoImport
  /\ ipre = NoSnapshot
  /\ irolled = NoRollback

MigrateAtRest == ResolveAtRest /\ OpenAtRest /\ ImportAtRest

\* ------------------------------------------------------------ slicer values
\* lines a note body is made of: "---", "text", "# A", "## B", "## B ^x", "```" and
\* "``` ^x"
LineKinds == {"rule", "text", "h1", "h2", "h2x", "fence", "fencex"}

\* len(line), without the line end
LineLen(k) ==
  CASE k = "rule" -> 3
    [] k = "text" -> 4
    [] k = "h1" -> 3
    [] k = "h2" -> 4
    [] k = "h2x" -> 7
    [] k = "fence" -> 3
    [] k = "fencex" -> 6
    [] OTHER -> 0

\* the number of # of a heading line, 0 for another line
Level(k) == CASE k = "h1" -> 1 [] k \in {"h2", "h2x"} -> 2 [] OTHER -> 0
\* slugify of the heading text without its label
Slug(k) == CASE k = "h1" -> "a" [] k \in {"h2", "h2x"} -> "b" [] OTHER -> ""
\* the ^label that ends the heading text, or that stands in the fence info
Label(k) == IF k \in {"h2x", "fencex"} THEN "x" ELSE ""
\* line_stripped.startswith("```")
IsFence(k) == k \in {"fence", "fencex"}
\* b.heading_text of a heading block
HeadingText(k) == CASE k = "h1" -> "A" [] k = "h2" -> "B" [] k = "h2x" -> "B ^x" [] OTHER -> ""

\* a body: its lines, and whether the last line ends with a newline
Bodies ==
  {b \in [lines : UNION {[1..n -> LineKinds] : n \in 0..MaxLines}, nl : BOOLEAN] :
     b.nl => Len(b.lines) > 0}

NoAnchor == [kind |-> "none", value |-> ""]
Anchors ==
  {NoAnchor} \cup [kind : {"heading"}, value : {"a", "b", "B", "b-^x", "z"}]
    \cup [kind : {"block"}, value : {"x", "y"}]

NoResult == [raised |-> FALSE, start |-> -1, end |-> -1]
Raised == [raised |-> TRUE, start |-> -1, end |-> -1]
Returned(a, b) == [raised |-> FALSE, start |-> a, end |-> b]

NoParse == [done |-> FALSE, raised |-> FALSE, blocks |-> <<>>]

\* what the text between [[ and ]] is made of: two words, the characters the parser
\* looks for, the prefix "rel:" and a blank
Tokens == {"a", "b", "#", "^", "|", "rel:", " "}
Inners == UNION {[1..n -> Tokens] : n \in 0..MaxInner}

\* an optional string: None, or the string as its tokens
None == [some |-> FALSE, text |-> <<>>]
Some(t) == [some |-> TRUE, text |-> t]
NoLinkAnchor == [kind |-> "none", value |-> <<>>]
\* LinkTarget(id, anchor, rel, title_text)
LinkTarget(id, anchor, rel, title_text) ==
  [id |-> id, anchor |-> anchor, rel |-> rel, title_text |-> title_text]
NoTarget == LinkTarget(<<>>, NoLinkAnchor, None, None)

\* _parse_target is not being called
LinkAtRest ==
  /\ linner = <<>>
  /\ ltarget = NoTarget
  /\ lpc = "none"

\* slice_by_anchor, parse and anchor_ok are not being called
SlicerIdle ==
  /\ sraw = [lines |-> <<>>, nl |-> FALSE]
  /\ sanchor = NoAnchor
  /\ sres = NoResult
  /\ spc = "none"
  /\ sparsed = NoParse
  /\ sok = "none"

SliceAtRest == SlicerIdle /\ LinkAtRest

\* --------------------------------------------------------- vault and parser
\* FsStorage.list_all_ids: the stems of the *.md files
ListIds(fs) == {i \in Ids : fs[i] # NoFile}

\* SQLiteIndex._get_file_stats: (st_mtime_ns, st_size), None for a missing file
FileStats(f) == <<f.mtime, Size(f.text)>>

\* SQLiteIndex._compute_hash: SHA-256 of the file's bytes (distinct texts, distinct digests)
ComputeHash(f) == f.text

\* YamlFrontmatter.decode: yaml.safe_load raises on a malformed header
DecodeRaises(text) == text.kind = "badyaml"

\* MarkdownParser.parse builds Block(..., heading_level=..., heading_slug=...) for a
\* heading line; the dataclass constructor raises TypeError for an unknown keyword
ParseRaises(text) ==
  text.kind = "heading" /\ ~({"heading_level", "heading_slug"} \subseteq BlockFields)

ParseBlocks(text) ==
  CASE text.kind = "fence" -> {[kind |-> "fence", start |-> 0, end |-> 3]}
    [] text.kind = "heading" -> {[kind |-> "heading", start |-> 0, end |-> 4]}
    [] OTHER -> {}

ParseLinks(text) ==
  IF text.kind = "link" THEN {[dst |-> text.dst, start |-> 4, end |-> 9]} ELSE {}

Aliases(text) == IF text.kind = "link" THEN {"x"} ELSE {}

\* SQLiteIndex._extract_title: no title key and no heading block that loads, so the
\* first non-empty body line
ExtractTitle(text) ==
  CASE text.kind = "plain" -> "hello"
    [] text.kind = "link" -> "see [[" \o ToString(text.dst) \o "]]"
    [] text.kind = "fence" -> "fence-open"
    [] text.kind = "heading" -> "T"
    [] OTHER -> ""

\* SQLiteIndex._detect_math: none of the texts holds a $ sign
DetectMath(text) == 0

\* Vault.get: None for a missing file, an exception from the codec or the parser,
\* otherwise the note
VaultGet(f) ==
  IF f = NoFile THEN "missing"
  ELSE IF DecodeRaises(f.text) \/ ParseRaises(f.text) THEN "raises"
  ELSE "ok"

\* the values _index_note computes before its transaction begins
LoadNote(f, use_hash) ==
  [blocks |-> ParseBlocks(f.text), links |-> ParseLinks(f.text),
   aliases |-> Aliases(f.text), raw |-> f.text,
   mtime |-> FileStats(f)[1], size |-> FileStats(f)[2],
   hash |-> IF use_hash THEN ComputeHash(f) ELSE NoHash,
   title |-> ExtractTitle(f.text), has_math |-> DetectMath(f.text)]

\* ------------------------------------------------------------ SQL statements
\* SQLiteIndex._conn sets journal_mode, synchronous and temp_store only; SQLite
\* enforces FOREIGN KEY ... ON DELETE CASCADE only after PRAGMA foreign_keys=ON
ForeignKeysEnabled == FALSE

NotesIds(d) == {i \in Ids : d.notes[i] # NoRow}

\* mutant: the DELETE FROM notes statement is missing
DeleteNoteFtsOnly(d, id) == [d EXCEPT !.fts = {r \in @ : r.id # id}]

\* DELETE FROM notes WHERE id = ? ; DELETE FROM fts WHERE id = ?
DeleteNote(d, id) ==
  [notes |-> [d.notes EXCEPT ![id] = NoRow],
   blocks |-> IF ForeignKeysEnabled THEN {b \in d.blocks : b.note_id # id} ELSE d.blocks,
   links |-> IF ForeignKeysEnabled THEN {l \in d.links : l.src # id} ELSE d.links,
   kv |-> IF ForeignKeysEnabled THEN {k \in d.kv : k.note_id # id} ELSE d.kv,
   fts |-> {r \in d.fts : r.id # id}]

RECURSIVE DeleteNotes(_, _)
DeleteNotes(d, ids) ==
  IF ids = {} THEN d
  ELSE LET i == CHOOSE j \in ids : TRUE IN DeleteNotes(DeleteNote(d, i), ids \ {i})

\* INSERT INTO notes ... ON CONFLICT(id) DO UPDATE
UpsertNotesRow(d, id, n) ==
  [d EXCEPT !.notes[id] = [mtime |-> n.mtime, size |-> n.size, hash |-> n.hash,
                           title |-> n.title, has_math |-> n.has_math]]

DeleteBlocks(d, id) == [d EXCEPT !.blocks = {b \in @ : b.note_id # id}]
DeleteLinks(d, id) == [d EXCEPT !.links = {l \in @ : l.src # id}]
DeleteKv(d, id) == [d EXCEPT !.kv = {k \in @ : k.note_id # id}]

\* the blocks loop reads block.heading_level and block.heading_slug of every block
BlockRowRaises(n) ==
  n.blocks # {} /\ ~({"heading_level", "heading_slug"} \subseteq BlockFields)

InsertBlocks(d, id, n) ==
  [d EXCEPT !.blocks = @ \cup {[note_id |-> id, kind |-> b.kind, start |-> b.start,
                                end |-> b.end] : b \in n.blocks}]
InsertLinks(d, id, n) ==
  [d EXCEPT !.links = @ \cup {[src |-> id, dst |-> l.dst, start |-> l.start,
                               end |-> l.end] : l \in n.links}]
InsertKv(d, id, n) ==
  [d EXCEPT !.kv = @ \cup {[note_id |-> id, key |-> "core/alias", value |-> a] : a \in n.aliases}]
DeleteFts(d, id) == [d EXCEPT !.fts = {r \in @ : r.id # id}]
InsertFts(d, id, n) ==
  [d EXCEPT !.fts = @ \cup {[id |-> id, body |-> n.raw, title |-> n.title]}]

\* mutant: the except branch commits what the transaction did so far
RollbackKeepsWork(committed, working) == working

\* conn.rollback(): the connection is back on the committed contents
Rollback(committed, working) == committed

\* every row that belongs to note id
RowsOf(d, id) ==
  [notes |-> d.notes[id],
   blocks |-> {b \in d.blocks : b.note_id = id},
   links |-> {l \in d.links : l.src = id},
   kv |-> {k \in d.kv : k.note_id = id},
   fts |-> {r \in d.fts : r.id = id}]

NoRows == RowsOf(EmptyDb, 1)

\* the rows a committed upsert of note n leaves for id
NoteRows(id, n) ==
  RowsOf(InsertFts(InsertKv(InsertLinks(InsertBlocks(
           UpsertNotesRow(EmptyDb, id, n), id, n), id, n), id, n), id, n), id)

\* SQLiteIndex.links_in: the links rows with dst = id, read on a connection of its own
links_in(d, id) == {l \in d.links : l.dst = id}

\* mutant: the quick check compares size_bytes only
IsDirtySizeOnly(id, use_hash, d, fs) ==
  IF fs[id] = NoFile THEN FALSE
  ELSE IF d.notes[id] = NoRow THEN TRUE
  ELSE IF d.notes[id].size # FileStats(fs[id])[2] THEN TRUE
  ELSE IF use_hash /\ ComputeHash(fs[id]) # d.notes[id].hash THEN TRUE
  ELSE FALSE

\* SQLiteIndex._is_dirty
IsDirty(id, use_hash, d, fs) ==
  IF fs[id] = NoFile THEN FALSE
  ELSE IF d.notes[id] = NoRow THEN TRUE
  ELSE IF d.notes[id].mtime # FileStats(fs[id])[1] \/ d.notes[id].size # FileStats(fs[id])[2]
       THEN TRUE
  ELSE IF use_hash /\ ComputeHash(fs[id]) # d.notes[id].hash THEN TRUE
  ELSE FALSE

\* mutant: a failed note is not counted
CountResultNoFailed(c, ok, is_new, is_rebuild) ==
  IF ok THEN (IF is_new THEN [c EXCEPT !.inserted = @ + 1] ELSE [c EXCEPT !.updated = @ + 1])
  ELSE c

\* rebuild and update_notes: counts after _index_note returned, success or not
CountResult(c, ok, is_new, is_rebuild) ==
  IF ok THEN (IF is_new THEN [c EXCEPT !.inserted = @ + 1] ELSE [c EXCEPT !.updated = @ + 1])
  ELSE IF is_rebuild THEN [c EXCEPT !.failed = @ + 1] ELSE c

\* ------------------------------------------------------------------- actions
InitIndex ==
  /\ files \in [Ids -> Files \cup {NoFile}]
  /\ db = EmptyDb
  /\ tx = EmptyDb
  /\ pc = "idle"
  /\ op = NoOp
  /\ todo = {}
  /\ db_ids = {}
  /\ counts = NoCounts
  /\ cur = 0
  /\ note = NoNote
  /\ success = FALSE
  /\ pre = EmptyDb
  /\ upre = EmptyDb
  /\ attempted = {}
  /\ failedIds = {}
  /\ failedAt = "none"
  /\ undone = FALSE
  /\ last = 0
  /\ edits = 0
  /\ runs = 0
  /\ okrun = FALSE
  /\ WatchAtRest
  /\ VaultAtRest
  /\ MigrateAtRest
  /\ SliceAtRest

\* an editor, or Vault.put through FsStorage.write_raw, writes <id>.md
WriteFile(i, t) ==
  /\ pc = "idle"
  /\ edits + runs < MaxOps
  /\ files' = [files EXCEPT ![i] = [mtime |-> edits + 1, text |-> t]]
  /\ edits' = edits + 1
  /\ last' = 0
  /\ okrun' = FALSE
  /\ UNCHANGED <<db, tx, pc, op, todo, db_ids, counts, cur, note, success, pre, upre,
                 attempted, failedIds, failedAt, undone, runs>>
  /\ UNCHANGED wvars
  /\ UNCHANGED vvars
  /\ UNCHANGED svars
  /\ UNCHANGED mvars

\* FsStorage.delete_raw, or an editor, unlinks <id>.md
RemoveFile(i) ==
  /\ pc = "idle"
  /\ edits + runs < MaxOps
  /\ files[i] # NoFile
  /\ files' = [files EXCEPT ![i] = NoFile]
  /\ edits' = edits + 1
  /\ last' = 0
  /\ okrun' = FALSE
  /\ UNCHANGED <<db, tx, pc, op, todo, db_ids, counts, cur, note, success, pre, upre,
                 attempted, failedIds, failedAt, undone, runs>>
  /\ UNCHANGED wvars
  /\ UNCHANGED vvars
  /\ UNCHANGED svars
  /\ UNCHANGED mvars

\* rebuild up to the commit of the removals: file_ids, db_ids, the removal loop
RebuildStart(full, use_hash) ==
  /\ pc = "idle"
  /\ edits + runs < MaxOps
  /\ LET file_ids == ListIds(files)
         removed_ids == NotesIds(db) \ file_ids
     IN /\ db' = DeleteNotes(db, removed_ids)
        /\ tx' = db'
        /\ counts' = [NoCounts EXCEPT !.scanned = Cardinality(file_ids),
                                      !.removed = Cardinality(removed_ids)]
        /\ todo' = file_ids
        /\ db_ids' = NotesIds(db)
  /\ op' = [name |-> "rebuild", full |-> full, use_hash |-> use_hash,
            changed |-> {}, deleted |-> {}]
  /\ pre' = db
  /\ attempted' = {}
  /\ failedIds' = {}
  /\ last' = 0
  /\ pc' = "loop"
  /\ runs' = runs + 1
  /\ UNCHANGED <<files, cur, note, success, upre, failedAt, undone, edits, okrun>>
  /\ UNCHANGED wvars
  /\ UNCHANGED vvars
  /\ UNCHANGED svars
  /\ UNCHANGED mvars

\* one iteration of rebuild's loop over file_ids, up to the call of _index_note
RebuildVisit(i) ==
  /\ pc = "loop"
  /\ op.name = "rebuild"
  /\ i \in todo
  /\ IF op.full \/ IsDirty(i, op.use_hash, db, files)
     THEN /\ counts' = [counts EXCEPT !.dirty = @ + 1]
          /\ cur' = i
          /\ attempted' = attempted \cup {i}
          /\ pc' = "load"
          /\ UNCHANGED todo
     ELSE /\ todo' = todo \ {i}
          /\ UNCHANGED <<counts, cur, attempted, pc>>
  /\ UNCHANGED <<files, db, tx, op, db_ids, note, success, pre, upre, failedIds,
                 failedAt, undone, last, edits, runs, okrun>>
  /\ UNCHANGED wvars
  /\ UNCHANGED vvars
  /\ UNCHANGED svars
  /\ UNCHANGED mvars

\* update_notes up to the commit of the deletions, and its db_ids query
UpdateStart(changed_ids, deleted_ids) ==
  /\ pc = "idle"
  /\ edits + runs < MaxOps
  /\ db' = DeleteNotes(db, deleted_ids)
  /\ tx' = db'
  /\ counts' = [NoCounts EXCEPT !.removed = Cardinality(deleted_ids)]
  /\ db_ids' = NotesIds(db') \cap changed_ids
  /\ todo' = changed_ids
  /\ op' = [name |-> "update", full |-> FALSE, use_hash |-> FALSE,
            changed |-> changed_ids, deleted |-> deleted_ids]
  /\ pre' = db
  /\ attempted' = {}
  /\ failedIds' = {}
  /\ last' = IF changed_ids = {} /\ deleted_ids = {last} THEN last ELSE 0
  /\ pc' = "loop"
  /\ runs' = runs + 1
  /\ UNCHANGED <<files, cur, note, success, upre, failedAt, undone, edits, okrun>>
  /\ UNCHANGED wvars
  /\ UNCHANGED vvars
  /\ UNCHANGED svars
  /\ UNCHANGED mvars

\* one iteration of update_notes' loop over changed, up to the call of _index_note
UpdateVisit(i) ==
  /\ pc = "loop"
  /\ op.name = "update"
  /\ i \in todo
  /\ cur' = i
  /\ attempted' = attempted \cup {i}
  /\ pc' = "load"
  /\ UNCHANGED <<files, db, tx, op, todo, db_ids, counts, note, success, pre, upre,
                 failedIds, failedAt, undone, last, edits, runs, okrun>>
  /\ UNCHANGED wvars
  /\ UNCHANGED vvars
  /\ UNCHANGED svars
  /\ UNCHANGED mvars

\* _index_note before BEGIN: vault.get, _get_file_stats, _compute_hash, title, math
IndexLoad ==
  /\ pc = "load"
  /\ upre' = db
  /\ IF VaultGet(files[cur]) = "ok"
     THEN /\ note' = LoadNote(files[cur], op.use_hash)
          /\ pc' = "begin"
          /\ UNCHANGED <<success, failedAt>>
     ELSE /\ note' = NoNote
          /\ success' = FALSE
          /\ failedAt' = "load"
          /\ pc' = "ret"
  /\ UNCHANGED <<files, db, tx, op, todo, db_ids, counts, cur, pre, attempted,
                 failedIds, undone, last, edits, runs, okrun>>
  /\ UNCHANGED wvars
  /\ UNCHANGED vvars
  /\ UNCHANGED svars
  /\ UNCHANGED mvars

\* conn.execute("BEGIN IMMEDIATE"); it raises when the write lock cannot be taken
IndexBegin ==
  /\ pc = "begin"
  /\ \E fault \in BOOLEAN :
       IF fault
       THEN /\ success' = FALSE
            /\ failedAt' = "begin"
            /\ pc' = "ret"
            /\ UNCHANGED tx
       ELSE /\ tx' = db
            /\ pc' = "upsert"
            /\ UNCHANGED <<success, failedAt>>
  /\ UNCHANGED <<files, db, op, todo, db_ids, counts, cur, note, pre, upre, attempted,
                 failedIds, undone, last, edits, runs, okrun>>
  /\ UNCHANGED wvars
  /\ UNCHANGED vvars
  /\ UNCHANGED svars
  /\ UNCHANGED mvars

\* one statement of the transaction: it either takes effect on the indexer's
\* connection, or raises (the statement itself, or the store: disk full, I/O error)
\* and the except branch rolls back and returns False
Statement(step, next, raises, newtx) ==
  /\ pc = step
  /\ \E fault \in BOOLEAN :
       IF fault \/ raises
       THEN /\ db' = Rollback(db, tx)
            /\ tx' = db'
            /\ success' = FALSE
            /\ failedAt' = "rollback"
            /\ undone' = (tx # db)
            /\ pc' = "ret"
       ELSE /\ tx' = newtx
            /\ pc' = next
            /\ UNCHANGED <<db, success, failedAt, undone>>
  /\ UNCHANGED <<files, op, todo, db_ids, counts, cur, note, pre, upre, attempted,
                 failedIds, last, edits, runs, okrun>>
  /\ UNCHANGED wvars
  /\ UNCHANGED vvars
  /\ UNCHANGED svars
  /\ UNCHANGED mvars

IndexUpsertNotes == Statement("upsert", "del_blocks", FALSE, UpsertNotesRow(tx, cur, note))
IndexDeleteBlocks == Statement("del_blocks", "del_links", FALSE, DeleteBlocks(tx, cur))
IndexDeleteLinks == Statement("del_links", "del_kv", FALSE, DeleteLinks(tx, cur))
IndexDeleteKv == Statement("del_kv", "ins_blocks", FALSE, DeleteKv(tx, cur))
IndexInsertBlocks ==
  Statement("ins_blocks", "ins_links", BlockRowRaises(note), InsertBlocks(tx, cur, note))
IndexInsertLinks == Statement("ins_links", "ins_kv", FALSE, InsertLinks(tx, cur, note))
IndexInsertKv == Statement("ins_kv", "del_fts", FALSE, InsertKv(tx, cur, note))
IndexDeleteFts == Statement("del_fts", "ins_fts", FALSE, DeleteFts(tx, cur))
IndexInsertFts == Statement("ins_fts", "commit", FALSE, InsertFts(tx, cur, note))

\* conn.commit(); return True
IndexCommit ==
  /\ pc = "commit"
  /\ \E fault \in BOOLEAN :
       IF fault
       THEN /\ db' = Rollback(db, tx)
            /\ tx' = db'
            /\ success' = FALSE
            /\ failedAt' = "rollback"
            /\ undone' = (tx # db)
       ELSE /\ db' = tx
            /\ success' = TRUE
            /\ UNCHANGED <<tx, failedAt, undone>>
  /\ pc' = "ret"
  /\ UNCHANGED <<files, op, todo, db_ids, counts, cur, note, pre, upre, attempted,
                 failedIds, last, edits, runs, okrun>>
  /\ UNCHANGED wvars
  /\ UNCHANGED vvars
  /\ UNCHANGED svars
  /\ UNCHANGED mvars

\* back in the caller's loop: is_new and the counts
IndexReturn ==
  /\ pc = "ret"
  /\ counts' = CountResult(counts, success, cur \notin db_ids, op.name = "rebuild")
  /\ failedIds' = IF success THEN failedIds ELSE failedIds \cup {cur}
  /\ todo' = todo \ {cur}
  /\ cur' = 0
  /\ note' = NoNote
  /\ upre' = EmptyDb
  /\ failedAt' = "none"
  /\ undone' = FALSE
  /\ pc' = "loop"
  /\ UNCHANGED <<files, db, tx, op, db_ids, success, pre, attempted, last, edits, runs,
                 okrun>>
  /\ UNCHANGED wvars
  /\ UNCHANGED vvars
  /\ UNCHANGED svars
  /\ UNCHANGED mvars

\* the loop is over: VACUUM and ANALYZE after a full rebuild, return counts
LoopEnd ==
  /\ pc = "loop"
  /\ todo = {}
  /\ pc' = "done"
  /\ UNCHANGED <<files, db, tx, op, todo, db_ids, counts, cur, note, success, pre, upre,
                 attempted, failedIds, failedAt, undone, last, edits, runs, okrun>>
  /\ UNCHANGED wvars
  /\ UNCHANGED vvars
  /\ UNCHANGED svars
  /\ UNCHANGED mvars

\* the caller has the counts; conn.close()
Return ==
  /\ pc = "done"
  /\ last' = IF /\ op.name = "update"
                 /\ op.deleted = {}
                 /\ \E i \in Ids : op.changed = {i} /\ RowsOf(pre, i) = NoRows
              THEN CHOOSE i \in Ids : op.changed = {i}
              ELSE 0
  /\ op' = NoOp
  /\ counts' = NoCounts
  /\ db_ids' = {}
  /\ pre' = EmptyDb
  /\ attempted' = {}
  /\ failedIds' = {}
  /\ success' = FALSE
  /\ okrun' = (failedIds = {})
  /\ pc' = "idle"
  /\ UNCHANGED <<files, db, tx, todo, cur, note, upre, failedAt, undone, edits, runs>>
  /\ UNCHANGED wvars
  /\ UNCHANGED vvars
  /\ UNCHANGED svars
  /\ UNCHANGED mvars

\* mutant: the reader queries through the indexer's connection
ReaderSharesConn == tx

\* a reader (links_in, links_out, blocks, search) opens a connection of its own:
\* it reads the committed contents, never the indexer's open transaction
ReaderConn == db

\* the indexer is inside _index_note, past its load step
InIndexNote ==
  pc \in {"begin", "upsert", "del_blocks", "del_links", "del_kv", "ins_blocks",
          "ins_links", "ins_kv", "del_fts", "ins_fts", "commit", "ret"}

NextIndex ==
  \/ \E i \in Ids, t \in Texts : WriteFile(i, t)
  \/ \E i \in Ids : RemoveFile(i)
  \/ \E full \in BOOLEAN, use_hash \in BOOLEAN : RebuildStart(full, use_hash)
  \/ \E i \in Ids : RebuildVisit(i)
  \/ \E changed_ids \in SUBSET Ids, deleted_ids \in SUBSET Ids :
       UpdateStart(changed_ids, deleted_ids)
  \/ \E i \in Ids : UpdateVisit(i)
  \/ IndexLoad
  \/ IndexBegin
  \/ IndexUpsertNotes
  \/ IndexDeleteBlocks
  \/ IndexDeleteLinks
  \/ IndexDeleteKv
  \/ IndexInsertBlocks
  \/ IndexInsertLinks
  \/ IndexInsertKv
  \/ IndexDeleteFts
  \/ IndexInsertFts
  \/ IndexCommit
  \/ IndexReturn
  \/ LoopEnd
  \/ Return

Spec == InitIndex /\ [][NextIndex]_vars

\* ---------------------------------------------------------------- cancellation
\* signal_handler runs while a full rebuild is under way (the handlers watch_vault
\* installs stay installed in the process): it sets watch_vault's running flag, which
\* rebuild has no access to, and returns; rebuild goes on where it was
SignalDuringRebuild ==
  /\ pc # "idle"
  /\ op.name = "rebuild" /\ op.full
  /\ cancelled_run = 0
  /\ cancelled_run' = runs
  /\ UNCHANGED <<added, modified, deleted, last_event_time, now, running, tpc, wakeAt,
                 after, changed, rpc, ev, call, recorded, late, nev, quiet, json_output,
                 count, rebuilt, out, raised, erred>>
  /\ UNCHANGED ivars
  /\ UNCHANGED vvars
  /\ UNCHANGED svars
  /\ UNCHANGED mvars

NextCancel ==
  \/ NextIndex
  \/ SignalDuringRebuild

SpecCancel == InitIndex /\ [][NextCancel]_vars

\* ------------------------------------------------------------------ watcher
\* name.startswith(".")
StartsWithDot(name) == name.prefix \in {".", ".#"}

\* mutant: only hidden files are skipped
ShouldSkipHiddenOnly(name) == StartsWithDot(name)

\* DebounceHandler._should_skip
ShouldSkip(name) ==
  \/ StartsWithDot(name)
  \/ name.suffix = ".md~" \/ name.suffix = ".swp" \/ name.prefix = ".#"
  \/ name.suffix # ".md"

\* DebounceHandler._extract_id: path.stem, None (0) for a skipped file
ExtractId(name) == IF ShouldSkip(name) THEN 0 ELSE name.stem

\* the handlers return at once for a directory event and for a skipped file
Accepted(e) == ~e.is_directory /\ ExtractId(e.name) # 0

\* the sets an accepted event leaves behind: on_created adds to added, on_modified
\* to modified, on_deleted to deleted
RecordAdded(s, e) == IF e.kind = "created" THEN s \cup {ExtractId(e.name)} ELSE s
RecordModified(s, e) == IF e.kind = "modified" THEN s \cup {ExtractId(e.name)} ELSE s
RecordDeleted(s, e) == IF e.kind = "deleted" THEN s \cup {ExtractId(e.name)} ELSE s

\* flush has read the sets and has not yet cleared the set an event of this kind
\* is recorded in
BeforeClear(kind) ==
  \/ tpc = "clear_added"
  \/ tpc = "clear_modified" /\ kind \in {"modified", "deleted"}
  \/ tpc = "clear_deleted" /\ kind = "deleted"

\* flush: changed = self.added | self.modified builds a new set
FlushChanged == added \cup modified

\* flush: deleted = self.deleted binds the handler's own set object, so the argument
\* on_batch receives is that set as it is when on_batch is called
FlushDeleted == deleted

InitWatch ==
  /\ added = {}
  /\ modified = {}
  /\ deleted = {}
  /\ last_event_time = 0
  /\ now = DebounceUnits
  /\ running = TRUE
  /\ tpc = "loop"
  /\ wakeAt = 0
  /\ after = "none"
  /\ changed = {}
  /\ rpc = "idle"
  /\ ev = NoEvent
  /\ call = NoCall
  /\ recorded = NoRecord
  /\ late = {}
  /\ nev = 0
  /\ quiet = FALSE
  /\ json_output = FALSE
  /\ count = 0
  /\ rebuilt = TRUE
  /\ out = "none"
  /\ raised = FALSE
  /\ erred = FALSE
  /\ cancelled_run = 0
  /\ IndexAtRest
  /\ VaultAtRest
  /\ MigrateAtRest
  /\ SliceAtRest

\* time passes
Tick ==
  /\ now < MaxTime
  /\ now' = now + 1
  /\ UNCHANGED <<added, modified, deleted, last_event_time, running, tpc, wakeAt, after,
                 changed, rpc, ev, call, recorded, late, nev, quiet, json_output, count,
                 rebuilt, out, raised, erred, cancelled_run>>
  /\ UNCHANGED ivars
  /\ UNCHANGED vvars
  /\ UNCHANGED svars
  /\ UNCHANGED mvars

\* the observer thread dispatches an event to on_created, on_modified or on_deleted:
\* the handler up to and including self.<set>.add(note_id)
Dispatch(e) ==
  /\ rpc = "idle"
  /\ tpc \notin {"join", "exit"}
  /\ nev < MaxEvents
  /\ nev' = nev + 1
  /\ IF Accepted(e)
     THEN /\ added' = RecordAdded(added, e)
          /\ modified' = RecordModified(modified, e)
          /\ deleted' = RecordDeleted(deleted, e)
          /\ late' = IF BeforeClear(e.kind)
                     THEN late \cup {<<e.kind, ExtractId(e.name)>>}
                     ELSE late
          /\ ev' = e
          /\ rpc' = "stamp"
     ELSE UNCHANGED <<added, modified, deleted, late, ev, rpc>>
  /\ UNCHANGED <<last_event_time, now, running, tpc, wakeAt, after, changed, call,
                 recorded, quiet, json_output, count, rebuilt, out, raised, erred,
                 cancelled_run>>
  /\ UNCHANGED ivars
  /\ UNCHANGED vvars
  /\ UNCHANGED svars
  /\ UNCHANGED mvars

\* the handler's last statement: self.last_event_time = time.time()
Stamp ==
  /\ rpc = "stamp"
  /\ last_event_time' = now
  /\ ev' = NoEvent
  /\ rpc' = "idle"
  /\ UNCHANGED <<added, modified, deleted, now, running, tpc, wakeAt, after, changed,
                 call, recorded, late, nev, quiet, json_output, count, rebuilt, out,
                 raised, erred, cancelled_run>>
  /\ UNCHANGED ivars
  /\ UNCHANGED vvars
  /\ UNCHANGED svars
  /\ UNCHANGED mvars

\* signal_handler on SIGINT or SIGTERM
Signal ==
  /\ running
  /\ tpc \in {"loop", "sleep", "check", "flush", "clear_added", "clear_modified",
              "clear_deleted", "call"}
  /\ running' = FALSE
  /\ UNCHANGED <<added, modified, deleted, last_event_time, now, tpc, wakeAt, after,
                 changed, rpc, ev, call, recorded, late, nev, quiet, json_output, count,
                 rebuilt, out, raised, erred, cancelled_run>>
  /\ UNCHANGED ivars
  /\ UNCHANGED vvars
  /\ UNCHANGED svars
  /\ UNCHANGED mvars

\* while running: time.sleep(0.1) is entered; when not running, the finally block
\* calls handler.flush()
LoopTest ==
  /\ tpc = "loop"
  /\ IF running
     THEN /\ tpc' = "sleep"
          /\ wakeAt' = now + SleepUnits
          /\ UNCHANGED after
     ELSE /\ tpc' = "flush"
          /\ after' = "stop"
          /\ UNCHANGED wakeAt
  /\ UNCHANGED <<added, modified, deleted, last_event_time, now, running, changed, rpc,
                 ev, call, recorded, late, nev, quiet, json_output, count, rebuilt, out,
                 raised, erred, cancelled_run>>
  /\ UNCHANGED ivars
  /\ UNCHANGED vvars
  /\ UNCHANGED svars
  /\ UNCHANGED mvars

\* time.sleep(0.1) returns
Wake ==
  /\ tpc = "sleep"
  /\ now >= wakeAt
  /\ tpc' = "check"
  /\ UNCHANGED <<added, modified, deleted, last_event_time, now, running, wakeAt, after,
                 changed, rpc, ev, call, recorded, late, nev, quiet, json_output, count,
                 rebuilt, out, raised, erred, cancelled_run>>
  /\ UNCHANGED ivars
  /\ UNCHANGED vvars
  /\ UNCHANGED svars
  /\ UNCHANGED mvars

\* DebounceHandler.check_and_flush up to its call of flush
CheckAndFlush ==
  /\ tpc = "check"
  /\ IF added \cup modified \cup deleted = {}
     THEN tpc' = "loop" /\ UNCHANGED after
     ELSE IF now - last_event_time >= DebounceUnits
          THEN tpc' = "flush" /\ after' = "loop"
          ELSE tpc' = "loop" /\ UNCHANGED after
  /\ UNCHANGED <<added, modified, deleted, last_event_time, now, running, wakeAt,
                 changed, rpc, ev, call, recorded, late, nev, quiet, json_output, count,
                 rebuilt, out, raised, erred, cancelled_run>>
  /\ UNCHANGED ivars
  /\ UNCHANGED vvars
  /\ UNCHANGED svars
  /\ UNCHANGED mvars

\* DebounceHandler.flush: the emptiness test, changed and deleted
FlushRead ==
  /\ tpc = "flush"
  /\ IF added \cup modified \cup deleted = {}
     THEN /\ tpc' = after
          /\ UNCHANGED <<changed, call, recorded>>
     ELSE /\ changed' = FlushChanged
          /\ recorded' = [changed |-> added \cup modified, deleted |-> deleted]
          /\ call' = NoCall
          /\ tpc' = "clear_added"
  /\ UNCHANGED <<added, modified, deleted, last_event_time, now, running, wakeAt, after,
                 rpc, ev, late, nev, quiet, json_output, count, rebuilt, out, raised,
                 erred, cancelled_run>>
  /\ UNCHANGED ivars
  /\ UNCHANGED vvars
  /\ UNCHANGED svars
  /\ UNCHANGED mvars

\* self.added.clear()
ClearAdded ==
  /\ tpc = "clear_added"
  /\ added' = {}
  /\ tpc' = "clear_modified"
  /\ UNCHANGED <<modified, deleted, last_event_time, now, running, wakeAt, after,
                 changed, rpc, ev, call, recorded, late, nev, quiet, json_output, count,
                 rebuilt, out, raised, erred, cancelled_run>>
  /\ UNCHANGED ivars
  /\ UNCHANGED vvars
  /\ UNCHANGED svars
  /\ UNCHANGED mvars

\* self.modified.clear()
ClearModified ==
  /\ tpc = "clear_modified"
  /\ modified' = {}
  /\ tpc' = "clear_deleted"
  /\ UNCHANGED <<added, deleted, last_event_time, now, running, wakeAt, after, changed,
                 rpc, ev, call, recorded, late, nev, quiet, json_output, count, rebuilt,
                 out, raised, erred, cancelled_run>>
  /\ UNCHANGED ivars
  /\ UNCHANGED vvars
  /\ UNCHANGED svars
  /\ UNCHANGED mvars

\* self.deleted.clear()
ClearDeleted ==
  /\ tpc = "clear_deleted"
  /\ deleted' = {}
  /\ tpc' = "call"
  /\ UNCHANGED <<added, modified, last_event_time, now, running, wakeAt, after, changed,
                 rpc, ev, call, recorded, late, nev, quiet, json_output, count, rebuilt,
                 out, raised, erred, cancelled_run>>
  /\ UNCHANGED ivars
  /\ UNCHANGED vvars
  /\ UNCHANGED svars
  /\ UNCHANGED mvars

\* handle_batch's prints: a batch event in JSON mode, the Indexed line unless quiet;
\* in the except branch an error event in JSON mode, a line on stderr otherwise
HandleBatchReport(raises, q, j) ==
  IF raises THEN (IF j THEN "error_event" ELSE "stderr")
  ELSE IF j THEN "batch_event"
  ELSE IF ~q THEN "indexed_line"
  ELSE "none"

\* mutant: handle_batch has no except branch, the exception unwinds the main loop
AfterHandleBatchUncaught(raises, ret) == IF raises THEN "unwind" ELSE ret

\* handle_batch wraps index.update_notes in try ... except Exception: it returns to
\* flush, and flush to its caller, whether or not update_notes raised
AfterHandleBatch(raises, ret) == ret

\* self.on_batch(changed, deleted): handle_batch calls index.update_notes with the
\* two sets, which returns its counts or raises (database locked, disk full)
CallBatch ==
  /\ tpc = "call"
  /\ \E raises \in BOOLEAN :
       /\ raised' = raises
       /\ erred' = (erred \/ raises)
       /\ out' = HandleBatchReport(raises, quiet, json_output)
       /\ tpc' = AfterHandleBatch(raises, after)
  /\ call' = [made |-> TRUE, changed |-> changed, deleted |-> FlushDeleted]
  /\ late' = {e \in late :
                ~ \/ e[1] \in {"created", "modified"} /\ e[2] \in changed
                  \/ e[1] = "deleted" /\ e[2] \in FlushDeleted}
  /\ changed' = {}
  /\ UNCHANGED <<added, modified, deleted, last_event_time, now, running, wakeAt, after,
                 rpc, ev, recorded, nev, quiet, json_output, count, rebuilt,
                 cancelled_run>>
  /\ UNCHANGED ivars
  /\ UNCHANGED vvars
  /\ UNCHANGED svars
  /\ UNCHANGED mvars

\* observer.stop()
ObserverStop ==
  /\ tpc = "stop"
  /\ tpc' = "join"
  /\ UNCHANGED <<added, modified, deleted, last_event_time, now, running, wakeAt, after,
                 changed, rpc, ev, call, recorded, late, nev, quiet, json_output, count,
                 rebuilt, out, raised, erred, cancelled_run>>
  /\ UNCHANGED ivars
  /\ UNCHANGED vvars
  /\ UNCHANGED svars
  /\ UNCHANGED mvars

\* observer.join() returns once the observer thread has left its handler; return 0
ObserverJoin ==
  /\ tpc = "join"
  /\ rpc = "idle"
  /\ tpc' = "exit"
  /\ UNCHANGED <<added, modified, deleted, last_event_time, now, running, wakeAt, after,
                 changed, rpc, ev, call, recorded, late, nev, quiet, json_output, count,
                 rebuilt, out, raised, erred, cancelled_run>>
  /\ UNCHANGED ivars
  /\ UNCHANGED vvars
  /\ UNCHANGED svars
  /\ UNCHANGED mvars

\* ---------------------------------------------------------- watcher startup
\* what a committed _index_note leaves in the index for note n
UpsertNote(d, id, n) ==
  InsertFts(DeleteFts(InsertKv(InsertLinks(InsertBlocks(DeleteKv(DeleteLinks(DeleteBlocks(
    UpsertNotesRow(d, id, n), id), id), id), id, n), id, n), id, n), id), id, n)

\* _index_note on a store without faults: False and no change when vault.get fails
\* or a blocks row cannot be built
IndexNote(d, id, fs, use_hash) ==
  IF VaultGet(fs[id]) = "ok" /\ ~BlockRowRaises(LoadNote(fs[id], use_hash))
  THEN UpsertNote(d, id, LoadNote(fs[id], use_hash))
  ELSE d

RECURSIVE IndexNotes(_, _, _, _)
IndexNotes(d, ids, fs, use_hash) ==
  IF ids = {} THEN d
  ELSE LET i == CHOOSE j \in ids : TRUE
       IN IndexNotes(IndexNote(d, i, fs, use_hash), ids \ {i}, fs, use_hash)

\* index.rebuild(full=True, use_hash=False) from call to return
FullRebuild(d, fs) ==
  IndexNotes(DeleteNotes(d, NotesIds(d) \ ListIds(fs)), ListIds(fs), fs, FALSE)

\* the vault the watcher is started on: one note
StartFiles == [i \in Ids |-> IF i = 1 THEN [mtime |-> 0, text |-> [kind |-> "plain", dst |-> 0]]
                             ELSE NoFile]

\* watch_vault is called: any quiet and json_output, on an index that is empty or
\* that an earlier run has filled
InitStart ==
  /\ quiet \in BOOLEAN
  /\ json_output \in BOOLEAN
  /\ files = StartFiles
  /\ db \in {EmptyDb, FullRebuild(EmptyDb, StartFiles)}
  /\ tx = db
  /\ pc = "idle"
  /\ op = NoOp
  /\ todo = {}
  /\ db_ids = {}
  /\ counts = NoCounts
  /\ cur = 0
  /\ note = NoNote
  /\ success = FALSE
  /\ pre = EmptyDb
  /\ upre = EmptyDb
  /\ attempted = {}
  /\ failedIds = {}
  /\ failedAt = "none"
  /\ undone = FALSE
  /\ last = 0
  /\ edits = 0
  /\ runs = 0
  /\ okrun = FALSE
  /\ added = {}
  /\ modified = {}
  /\ deleted = {}
  /\ last_event_time = 0
  /\ now = DebounceUnits
  /\ running = FALSE
  /\ tpc = "start"
  /\ wakeAt = 0
  /\ after = "none"
  /\ changed = {}
  /\ rpc = "none"
  /\ ev = NoEvent
  /\ call = NoCall
  /\ recorded = NoRecord
  /\ late = {}
  /\ nev = 0
  /\ count = -1
  /\ rebuilt = FALSE
  /\ out = "none"
  /\ raised = FALSE
  /\ erred = FALSE
  /\ cancelled_run = 0
  /\ VaultAtRest
  /\ MigrateAtRest
  /\ SliceAtRest

\* watch_vault up to observer.start(): _ensure_schema, the count of the notes table,
\* the initial rebuild under "if count == 0 and not quiet", running = True, the
\* handler and the observer
WatchStart ==
  /\ tpc = "start"
  /\ count' = Cardinality(NotesIds(db))
  /\ IF count' = 0 /\ ~quiet
     THEN /\ db' = FullRebuild(db, files)
          /\ tx' = db'
          /\ rebuilt' = TRUE
     ELSE UNCHANGED <<db, tx, rebuilt>>
  /\ running' = TRUE
  /\ rpc' = "idle"
  /\ tpc' = "loop"
  /\ UNCHANGED <<added, modified, deleted, last_event_time, now, wakeAt, after, changed,
                 ev, call, recorded, late, nev, quiet, json_output, out, raised, erred,
                 cancelled_run>>
  /\ UNCHANGED <<files, pc, op, todo, db_ids, counts, cur, note, success, pre, upre,
                 attempted, failedIds, failedAt, undone, last, edits, runs, okrun>>
  /\ UNCHANGED vvars
  /\ UNCHANGED svars
  /\ UNCHANGED mvars

NextWatch ==
  \/ Tick
  \/ \E e \in Events : Dispatch(e)
  \/ Stamp
  \/ Signal
  \/ LoopTest
  \/ Wake
  \/ CheckAndFlush
  \/ FlushRead
  \/ ClearAdded
  \/ ClearModified
  \/ ClearDeleted
  \/ CallBatch
  \/ ObserverStop
  \/ ObserverJoin

SpecWatch == InitWatch /\ [][NextWatch]_vars

NextStart ==
  \/ WatchStart
  \/ NextWatch

SpecStart == InitStart /\ [][NextStart]_vars

\* --------------------------------------------------------------------- vault
\* the contents Vault.put encodes: a note without links and a note with a link
PutTexts == {t \in Texts : t.kind \in {"plain", "link"}}

\* FsStorage.read_raw: None (NoText) when the file does not exist
ReadRaw(f) == IF f = NoFile THEN NoText ELSE f.text

\* Path.write_text opens the target with mode "w": the file exists and is empty
\* from then until the text is written
OpenForWrite(f, t) == [mtime |-> t, text |-> EmptyText]

InitVault ==
  /\ files \in [Ids -> {NoFile, [mtime |-> 0, text |-> [kind |-> "plain", dst |-> 0]]}]
  /\ db = EmptyDb
  /\ tx = EmptyDb
  /\ pc = "idle"
  /\ op = NoOp
  /\ todo = {}
  /\ db_ids = {}
  /\ counts = NoCounts
  /\ cur = 0
  /\ note = NoNote
  /\ success = FALSE
  /\ pre = EmptyDb
  /\ upre = EmptyDb
  /\ attempted = {}
  /\ failedIds = {}
  /\ failedAt = "none"
  /\ undone = FALSE
  /\ last = 0
  /\ edits = 0
  /\ runs = 0
  /\ okrun = FALSE
  /\ WatchAtRest
  /\ VaultAtRest
  /\ MigrateAtRest
  /\ SliceAtRest

\* FsStorage.write_raw up to the open of the target file
WriteOpen(i, t, by) ==
  /\ wpc = "idle"
  /\ edits + runs < MaxOps
  /\ wold' = files[i]
  /\ files' = [files EXCEPT ![i] = OpenForWrite(files[i], edits + 1)]
  /\ wjob' = [id |-> i, text |-> t, by |-> by]
  /\ wpc' = "open"
  /\ vdel' = IF vdel = i THEN 0 ELSE vdel
  /\ edits' = edits + 1
  /\ okrun' = FALSE
  /\ UNCHANGED <<got, vreb>>
  /\ UNCHANGED <<db, tx, pc, op, todo, db_ids, counts, cur, note, success, pre, upre,
                 attempted, failedIds, failedAt, undone, last, runs>>
  /\ UNCHANGED wvars
  /\ UNCHANGED svars
  /\ UNCHANGED mvars

\* Vault.put: codec.encode_file, then storage.write_raw(note.id, contents)
PutOpen(i, t) == WriteOpen(i, t, "put")

\* Vault.delete: storage.write_raw(id, "")
DeleteOpen(i) == WriteOpen(i, EmptyText, "delete")

\* write_raw from the write of the text to its return, and the caller's return
WriteClose ==
  /\ wpc = "open"
  /\ files' = [files EXCEPT ![wjob.id] = [mtime |-> edits, text |-> wjob.text]]
  /\ vdel' = IF wjob.by = "delete" THEN wjob.id ELSE vdel
  /\ vreb' = IF wjob.by = "delete" THEN FALSE ELSE vreb
  /\ wjob' = NoJob
  /\ wold' = [mtime |-> -1, text |-> NoText]
  /\ wpc' = "idle"
  /\ okrun' = FALSE
  /\ UNCHANGED got
  /\ UNCHANGED <<db, tx, pc, op, todo, db_ids, counts, cur, note, success, pre, upre,
                 attempted, failedIds, failedAt, undone, last, edits, runs>>
  /\ UNCHANGED wvars
  /\ UNCHANGED svars
  /\ UNCHANGED mvars

\* a reader in another thread or process: Vault.get(i) up to read_raw's return. What
\* it could return is the file as it was before a put under way on i, or the contents
\* that put is writing
Get(i) ==
  /\ LET during == wpc = "open" /\ wjob.id = i /\ wjob.by = "put"
     IN got' = [id |-> i, text |-> ReadRaw(files[i]),
                old |-> IF during THEN ReadRaw(wold) ELSE ReadRaw(files[i]),
                new |-> IF during THEN wjob.text ELSE ReadRaw(files[i])]
  /\ got' # got
  /\ UNCHANGED <<wpc, wjob, wold, vdel, vreb>>
  /\ UNCHANGED ivars
  /\ UNCHANGED wvars
  /\ UNCHANGED svars
  /\ UNCHANGED mvars

\* index.rebuild(full=True) from call to return, on a store without faults
VaultRebuild ==
  /\ pc = "idle"
  /\ edits + runs < MaxOps
  /\ db' = FullRebuild(db, files)
  /\ tx' = db'
  /\ runs' = runs + 1
  /\ vreb' = (vdel # 0)
  /\ UNCHANGED <<wpc, wjob, wold, got, vdel>>
  /\ UNCHANGED <<files, pc, op, todo, db_ids, counts, cur, note, success, pre, upre,
                 attempted, failedIds, failedAt, undone, last, edits, okrun>>
  /\ UNCHANGED wvars
  /\ UNCHANGED svars
  /\ UNCHANGED mvars

NextVault ==
  \/ \E i \in Ids, t \in PutTexts : PutOpen(i, t)
  \/ \E i \in Ids : DeleteOpen(i)
  \/ WriteClose
  \/ \E i \in Ids : Get(i)
  \/ VaultRebuild

SpecVault == InitVault /\ [][NextVault]_vars

\* -------------------------------------------------------------------- slicer
\* offset of line i in the raw text (i may be one past the last line)
RECURSIVE Offset(_, _)
Offset(lines, i) ==
  IF i <= 1 THEN 0 ELSE Offset(lines, i - 1) + LineLen(lines[i - 1]) + 1

\* len(note.body.raw)
RawLen(b) ==
  IF Len(b.lines) = 0 THEN 0
  ELSE Offset(b.lines, Len(b.lines) + 1) - (IF b.nl THEN 0 ELSE 1)

\* in_fence and fence_start when the parser comes to line i: the line that opened
\* the fence it is in, 0 outside a fence
RECURSIVE FenceOpenAt(_, _)
FenceOpenAt(lines, i) ==
  IF i <= 1 THEN 0
  ELSE LET o == FenceOpenAt(lines, i - 1)
       IN IF IsFence(lines[i - 1]) THEN (IF o = 0 THEN i - 1 ELSE 0) ELSE o

\* note.body.blocks, each block named by the line at which the parser appends it, so
\* that the order of the names is the order of the list: a heading Block per heading
\* line outside a fence, a fence Block per line that closes a fence
HeadingLines(b) ==
  {i \in 1..Len(b.lines) : Level(b.lines[i]) > 0 /\ FenceOpenAt(b.lines, i) = 0}
FenceLines(b) ==
  {i \in 1..Len(b.lines) : IsFence(b.lines[i]) /\ FenceOpenAt(b.lines, i) # 0}
BlockLines(b) == HeadingLines(b) \cup FenceLines(b)

\* block.label: of the heading text, or of the info of the line that opened the fence
BlockLabel(b, i) ==
  IF i \in FenceLines(b) THEN Label(b.lines[FenceOpenAt(b.lines, i)])
  ELSE Label(b.lines[i])

\* block.range: Range(offset, offset + len(ln)) for a heading, Range(fence_start,
\* offset + len(ln)) for a fence, with ln holding its line end
BlockStart(b, i) ==
  IF i \in FenceLines(b) THEN Offset(b.lines, FenceOpenAt(b.lines, i))
  ELSE Offset(b.lines, i)
BlockEnd(b, i) ==
  Offset(b.lines, i) + LineLen(b.lines[i]) + (IF i < Len(b.lines) \/ b.nl THEN 1 ELSE 0)

\* reading an attribute the Block dataclass does not declare raises AttributeError,
\* passing it to Block() raises TypeError
HasField(f) == f \in BlockFields

\* the Block the parser appends at line i
BlockAt(b, i) ==
  [kind |-> IF i \in FenceLines(b) THEN "fence" ELSE "heading",
   start |-> BlockStart(b, i),
   end |-> BlockEnd(b, i),
   label |-> BlockLabel(b, i),
   heading_text |-> IF i \in FenceLines(b) THEN "" ELSE HeadingText(b.lines[i])]

\* body.blocks after the parser has gone through the lines 1..i
RECURSIVE BlocksUpTo(_, _)
BlocksUpTo(b, i) ==
  IF i = 0 THEN <<>>
  ELSE IF i \in BlockLines(b) THEN Append(BlocksUpTo(b, i - 1), BlockAt(b, i))
  ELSE BlocksUpTo(b, i - 1)

\* MarkdownParser.parse: Block(kind="heading", ..., heading_level=, heading_slug=)
\* raises at the first heading line outside a fence
Parse(b) ==
  IF HeadingLines(b) # {} /\ ~(HasField("heading_level") /\ HasField("heading_slug"))
  THEN [done |-> TRUE, raised |-> TRUE, blocks |-> <<>>]
  ELSE [done |-> TRUE, raised |-> FALSE, blocks |-> BlocksUpTo(b, Len(b.lines))]

Min(S) == CHOOSE x \in S : \A y \in S : x <= y

\* find_label: the first block whose label has the name, None (0) when there is none
FindLabel(b, name) ==
  LET hit == {i \in BlockLines(b) : BlockLabel(b, i) = name}
  IN IF hit = {} THEN 0 ELSE Min(hit)

\* find_heading_by_slug: block.heading_slug is read for the first heading block;
\* -1 when that read raises, 0 for None
FindHeadingBySlug(b, slug) ==
  IF HeadingLines(b) = {} THEN 0
  ELSE IF ~HasField("heading_slug") THEN -1
  ELSE LET hit == {i \in HeadingLines(b) : Slug(b.lines[i]) = slug}
       IN IF hit = {} THEN 0 ELSE Min(hit)

\* slice_heading for a heading block: heading_block.heading_level is read first
SliceHeading(b, i) ==
  IF ~HasField("heading_level") THEN Raised
  ELSE LET later == {j \in HeadingLines(b) :
                       j > i /\ Level(b.lines[j]) <= Level(b.lines[i])}
       IN Returned(BlockStart(b, i),
                   IF later = {} THEN RawLen(b) ELSE BlockStart(b, Min(later)))

\* slice_block: the heading rule for a heading, the block's own range for a fence
SliceBlock(b, i) ==
  IF i \in HeadingLines(b) THEN SliceHeading(b, i)
  ELSE Returned(BlockStart(b, i), BlockEnd(b, i))

\* text.split('\n'): the lines, and an empty string after a final newline
SplitLines(b) == IF b.nl THEN Append(b.lines, "") ELSE b.lines

\* slice_by_anchor without an anchor: when the text starts with "---", the first
\* later line that is "---" ends what is taken for front matter
SliceNoAnchor(b) ==
  LET lines == SplitLines(b)
      closing == {i \in 2..Len(lines) : lines[i] = "rule"}
  IN IF Len(b.lines) > 0 /\ b.lines[1] = "rule" /\ closing # {}
     THEN Returned(Offset(lines, Min(closing) + 1), RawLen(b))
     ELSE Returned(0, RawLen(b))

\* slice_by_anchor
SliceByAnchor(b, a) ==
  IF a = NoAnchor THEN SliceNoAnchor(b)
  ELSE IF a.kind = "block"
       THEN LET i == FindLabel(b, a.value)
            IN IF i = 0 THEN Returned(0, 0) ELSE SliceBlock(b, i)
  ELSE IF a.kind = "heading"
       THEN LET i == FindHeadingBySlug(b, a.value)
            IN IF i = -1 THEN Raised
               ELSE IF i = 0 THEN Returned(0, 0)
               ELSE SliceHeading(b, i)
  ELSE Returned(0, 0)

\* a note built from Block, Range and BlockLabel objects and an anchor, before the
\* call of slice_by_anchor
InitSlice ==
  /\ sraw \in Bodies
  /\ sanchor \in Anchors
  /\ sres = NoResult
  /\ spc = "call"
  /\ sparsed = NoParse
  /\ sok = "none"
  /\ LinkAtRest
  /\ IndexAtRest
  /\ WatchAtRest
  /\ VaultAtRest
  /\ MigrateAtRest

\* slice_by_anchor(note, anchor) from call to return
Slice ==
  /\ spc = "call"
  /\ sres' = SliceByAnchor(sraw, sanchor)
  /\ spc' = "done"
  /\ UNCHANGED <<sraw, sanchor, sparsed, sok>>
  /\ UNCHANGED <<linner, ltarget, lpc>>
  /\ UNCHANGED ivars
  /\ UNCHANGED wvars
  /\ UNCHANGED vvars
  /\ UNCHANGED mvars

\* str.lower() of an anchor value
Lower(v) == IF v = "B" THEN "b" ELSE v

\* (b.heading_text or "").strip().lower().replace(" ", "-")
ResolverSlug(text) ==
  CASE text = "A" -> "a"
    [] text = "B" -> "b"
    [] text = "B ^x" -> "b-^x"
    [] OTHER -> ""

\* DefaultResolver.anchor_ok for a target whose note exists with the body b;
\* vault.get parses the body
AnchorOkResult(b, a) ==
  IF a = NoAnchor THEN "true"
  ELSE LET p == Parse(b)
           labels == {p.blocks[i].label : i \in {j \in 1..Len(p.blocks) : p.blocks[j].label # ""}}
           slugs == {ResolverSlug(p.blocks[i].heading_text) :
                       i \in {j \in 1..Len(p.blocks) : p.blocks[j].kind = "heading"}}
       IN IF p.raised THEN "raised"
          ELSE IF a.kind = "block"
               THEN (IF a.value \in labels THEN "true" ELSE "false")
          ELSE (IF Lower(a.value) \in slugs THEN "true" ELSE "false")

\* resolver.anchor_ok(LinkTarget(id, anchor)) from call to return
AnchorOk ==
  /\ spc # "none"
  /\ sok = "none"
  /\ sok' = AnchorOkResult(sraw, sanchor)
  /\ UNCHANGED <<sraw, sanchor, sres, spc, sparsed>>
  /\ UNCHANGED <<linner, ltarget, lpc>>
  /\ UNCHANGED ivars
  /\ UNCHANGED wvars
  /\ UNCHANGED vvars
  /\ UNCHANGED mvars

\* MarkdownParser.parse(text, id) from call to return, for the same text
ParseText ==
  /\ spc # "none"
  /\ ~sparsed.done
  /\ sparsed' = Parse(sraw)
  /\ UNCHANGED <<sraw, sanchor, sres, spc, sok>>
  /\ UNCHANGED <<linner, ltarget, lpc>>
  /\ UNCHANGED ivars
  /\ UNCHANGED wvars
  /\ UNCHANGED vvars
  /\ UNCHANGED mvars

NextSlice == Slice \/ ParseText \/ AnchorOk

SpecSlice == InitSlice /\ [][NextSlice]_vars

\* --------------------------------------------------------------- link targets
\* positions of a token, and of "#" followed by "^", in a text
Positions(t, c) == {i \in 1..Len(t) : t[i] = c}
HashCaretPositions(t) == {i \in 1..Len(t) - 1 : t[i] = "#" /\ t[i + 1] = "^"}

\* str.split(sep) for a separator of one character
RECURSIVE Split(_, _)
Split(t, sep) ==
  IF Positions(t, sep) = {} THEN <<t>>
  ELSE LET i == Min(Positions(t, sep))
       IN <<SubSeq(t, 1, i - 1)>> \o Split(SubSeq(t, i + 1, Len(t)), sep)

\* str.strip()
RECURSIVE Strip(_)
Strip(t) ==
  IF t # <<>> /\ Head(t) = " " THEN Strip(Tail(t))
  ELSE IF t # <<>> /\ t[Len(t)] = " " THEN Strip(SubSeq(t, 1, Len(t) - 1))
  ELSE t

\* str.startswith("rel:")
StartsWithRel(t) == t # <<>> /\ Head(t) = "rel:"

\* the part of the text _parse_target resolves: parts[0] of two parts, parts[1] of
\* three parts that start with "rel:", the whole text otherwise
Core(spec) ==
  LET parts == Split(spec, "|")
  IN IF Len(parts) = 2 THEN parts[1]
     ELSE IF Len(parts) = 3 /\ StartsWithRel(parts[1]) THEN parts[2]
     ELSE spec

\* _parse_target: the id and the anchor come from the core; the title and the rel
\* are dropped, LinkTarget leaves rel and title_text at their default None
ParseTarget(spec) ==
  LET core == Core(spec)
  IN IF HashCaretPositions(core) # {}
     THEN LET i == Min(HashCaretPositions(core))
          IN LinkTarget(Strip(SubSeq(core, 1, i - 1)),
                        [kind |-> "block", value |-> Strip(SubSeq(core, i + 2, Len(core)))],
                        None, None)
     ELSE IF Positions(core, "#") # {}
     THEN LET i == Min(Positions(core, "#"))
          IN LinkTarget(Strip(SubSeq(core, 1, i - 1)),
                        [kind |-> "heading", value |-> Strip(SubSeq(core, i + 1, Len(core)))],
                        None, None)
     ELSE LinkTarget(Strip(core), NoLinkAnchor, None, None)

\* the text of one [[...]] or ![[...]] match, before _parse_target is called on it
InitLink ==
  /\ linner \in Inners
  /\ ltarget = NoTarget
  /\ lpc = "call"
  /\ SlicerIdle
  /\ IndexAtRest
  /\ WatchAtRest
  /\ VaultAtRest
  /\ MigrateAtRest

\* _parse_target(m.group(1)) from call to return
ParseLinkTarget ==
  /\ lpc = "call"
  /\ ltarget' = ParseTarget(linner)
  /\ lpc' = "done"
  /\ UNCHANGED <<sraw, sanchor, sres, spc, sparsed, sok, linner>>
  /\ UNCHANGED ivars
  /\ UNCHANGED wvars
  /\ UNCHANGED vvars
  /\ UNCHANGED mvars

NextLink == ParseLinkTarget

SpecLink == InitLink /\ [][NextLink]_vars

\* ------------------------------------------------------------------ resolver
\* the kv rows of the notes 1..n in the order of their insertion: _index_note
\* inserts one row per entry of the core/aliases list, and kv has no key
RECURSIVE KvRows(_, _)
KvRows(x, n) ==
  IF n = 0 THEN <<>>
  ELSE KvRows(x, n - 1) \o
         [i \in 1..Len(x.aliases[n]) |->
            [note_id |-> n, key |-> "core/alias", value |-> x.aliases[n][i]]]

\* SELECT note_id FROM kv WHERE key = 'core/alias' AND value = ?
SelectAlias(x, text) ==
  LET hit(r) == r.key = "core/alias" /\ r.value = text
      rows == SelectSeq(KvRows(x, Cardinality(RIds)), hit)
  IN [i \in 1..Len(rows) |-> rows[i].note_id]

\* SELECT id FROM notes WHERE title = ?
RECURSIVE SelectTitle(_, _, _)
SelectTitle(x, text, n) ==
  IF n = 0 THEN <<>>
  ELSE IF x.title[n] = text THEN Append(SelectTitle(x, text, n - 1), n)
  ELSE SelectTitle(x, text, n - 1)

\* resolve_target(text, index, resolver_mode, prefer); 0 stands for None
ResolveTarget(text, x, resolver_mode, prefer) ==
  LET alias_ids == IF resolver_mode \in {"alias", "both"} THEN SelectAlias(x, text) ELSE <<>>
      title_ids == IF resolver_mode \in {"title", "both"}
                   THEN SelectTitle(x, text, Cardinality(RIds)) ELSE <<>>
  IN IF Len(alias_ids) = 1 /\ title_ids = <<>> THEN alias_ids[1]
     ELSE IF Len(title_ids) = 1 /\ alias_ids = <<>> THEN title_ids[1]
     ELSE IF Len(alias_ids) = 1 /\ Len(title_ids) = 1
          THEN (IF prefer = "alias" THEN alias_ids[1] ELSE title_ids[1])
     ELSE 0

\* an index built from two notes, and the arguments of a call of resolve_target
InitResolve ==
  /\ rindex \in Indexes
  /\ rmode \in {"title", "alias", "both"}
  /\ rprefer \in {"title", "alias"}
  /\ rres = 0
  /\ rcall = "call"
  /\ OpenAtRest
  /\ ImportAtRest
  /\ IndexAtRest
  /\ WatchAtRest
  /\ VaultAtRest
  /\ SliceAtRest

\* resolve_target("Match", index, resolver_mode, prefer) from call to return
Resolve ==
  /\ rcall = "call"
  /\ rres' = ResolveTarget("Match", rindex, rmode, rprefer)
  /\ rcall' = "done"
  /\ UNCHANGED <<rindex, rmode, rprefer, dbfile, backups, clock, olast>>
  /\ UNCHANGED pvars
  /\ UNCHANGED ivars
  /\ UNCHANGED wvars
  /\ UNCHANGED vvars
  /\ UNCHANGED svars

NextResolve == Resolve

SpecResolve == InitResolve /\ [][NextResolve]_vars

\* ---------------------------------------------------------------- index file
\* SQLiteIndex._conn on an existing file: PRAGMA journal_mode=WAL reads the header
\* and raises sqlite3.DatabaseError when SQLite rejects it
ConnRaises(f) == f.kind = "bad_header"

\* SQLiteIndex._migrate_schema: every error is caught inside; a version 1 database
\* gets the new kv table and version 2, a database without a meta table stays as it is
MigrateSchema(f) ==
  IF f.kind = "db" /\ f.version = 1 THEN Database(2, f.rows) ELSE f

\* mutant: the except branch leaves the file where it is
RenameSkipped(f, t, bk) == [file |-> f, backups |-> bk]

\* self.db_path.rename(backup_path) with the timestamp t in the name
RenameToBackup(f, t, bk) == [file |-> Absent, backups |-> bk \cup {t}]

\* SQLiteIndex._init_schema: raises on a file SQLite cannot work with, creates what is
\* missing otherwise and sets schema_version to 2
InitSchema(f) ==
  IF f.kind \in {"bad_header", "bad_pages"}
  THEN [file |-> f, raised |-> TRUE]
  ELSE [file |-> Database(2, f.rows), raised |-> FALSE]

\* SQLiteIndex._ensure_schema at the time t
EnsureSchema(f, t, bk) ==
  LET tried == IF f.kind = "absent" THEN [file |-> f, backups |-> bk]
               ELSE IF ConnRaises(f) THEN RenameToBackup(f, t, bk)
               ELSE [file |-> MigrateSchema(f), backups |-> bk]
      made == InitSchema(tried.file)
  IN [file |-> made.file, backups |-> tried.backups, raised |-> made.raised]

\* an index file left by an earlier run, or none
InitOpen ==
  /\ dbfile \in {Absent} \cup {Database(v, n) : v \in {1, 2}, n \in {0, 1}}
  /\ backups = {}
  /\ clock = 1
  /\ olast = NoOpen
  /\ ResolveAtRest
  /\ ImportAtRest
  /\ IndexAtRest
  /\ WatchAtRest
  /\ VaultAtRest
  /\ SliceAtRest

\* rebuild or update_notes over a vault of one note, from the call to its return:
\* _ensure_schema first, then the note is indexed
Operation(name) ==
  /\ LET e == EnsureSchema(dbfile, clock, backups)
     IN /\ dbfile' = IF e.raised THEN e.file ELSE Database(e.file.version, 1)
        /\ backups' = e.backups
        /\ olast' = [op |-> name, pre |-> dbfile.kind, stamp |-> clock, raised |-> e.raised]
  /\ UNCHANGED <<rindex, rmode, rprefer, rres, rcall, clock>>
  /\ UNCHANGED pvars
  /\ UNCHANGED ivars
  /\ UNCHANGED wvars
  /\ UNCHANGED vvars
  /\ UNCHANGED svars

\* between two operations the file is damaged, truncated to nothing or removed
Damage(f) ==
  /\ dbfile # f
  /\ dbfile' = f
  /\ olast' = NoOpen
  /\ UNCHANGED <<rindex, rmode, rprefer, rres, rcall, backups, clock>>
  /\ UNCHANGED pvars
  /\ UNCHANGED ivars
  /\ UNCHANGED wvars
  /\ UNCHANGED vvars
  /\ UNCHANGED svars

\* a second passes
Second ==
  /\ clock < MaxStamp
  /\ clock' = clock + 1
  /\ olast' = NoOpen
  /\ UNCHANGED <<rindex, rmode, rprefer, rres, rcall, dbfile, backups>>
  /\ UNCHANGED pvars
  /\ UNCHANGED ivars
  /\ UNCHANGED wvars
  /\ UNCHANGED vvars
  /\ UNCHANGED svars

NextOpen ==
  \/ \E name \in {"rebuild", "update_notes"} : Operation(name)
  \/ \E f \in {BadHeader, BadPages, Database(0, 0), Absent} : Damage(f)
  \/ Second

SpecOpen == InitOpen /\ [][NextOpen]_vars

\* ----------------------------------------------------------------- importer
\* on_conflict = "new-id": counter counts from 1 while f"{base_id}_{counter}.md" exists
NewId(base_id, dst) ==
  [base |-> base_id,
   n |-> CHOOSE c \in 1..(MaxSuffix + MaxItems) :
           /\ ~Exists(dst, [base |-> base_id, n |-> c])
           /\ \A e \in 1..(c - 1) : Exists(dst, [base |-> base_id, n |-> e])]

\* inject_frontmatter: the frontmatter gets the id, the body is kept
InjectFrontmatter(content, note_id) == [id |-> note_id, body |-> content.body]

\* ManifestEntry(action=operation, src=..., dst=..., backup=...); no file is at dst_path
\* when the backup is decided, so backup is None
ManifestEntry(operation, src_path, dst_id) ==
  [action |-> operation,
   src |-> IF operation \in {"move", "copy"} THEN src_path ELSE NoPath,
   dst |-> dst_id,
   backup |-> NoPath]

\* apply_import: the body of the loop for one item of the plan
ApplyItem(item, k, st, operation, dry_run, on_conflict) ==
  IF item.status # "ok" THEN st
  ELSE
    LET exists == Exists(st.dst, PlanId(item.id))
        dst_id == IF exists /\ on_conflict = "new-id" THEN NewId(item.id, st.dst)
                  ELSE PlanId(item.id)
    IN IF exists /\ on_conflict = "skip" THEN st
       ELSE IF exists /\ on_conflict = "fail"
            THEN [st EXCEPT !.raised = "FileExistsError", !.at = k]
       ELSE IF ~Exists(st.src, item.src)
            THEN [st EXCEPT !.raised = "FileNotFoundError", !.at = k]
       ELSE IF dry_run THEN st
       ELSE [st EXCEPT
               !.dst = WriteTo(@, dst_id, InjectFrontmatter(st.src[item.src], dst_id)),
               !.entries = Append(@, ManifestEntry(operation, item.src, dst_id)),
               !.src = IF operation = "move" THEN Unlink(@, item.src) ELSE @]

\* apply_import: the loop over plan.items from item k on, left by the first exception
RECURSIVE ApplyItems(_, _, _, _, _, _)
ApplyItems(items, k, st, operation, dry_run, on_conflict) ==
  IF k > Len(items) \/ st.raised # "none" THEN st
  ELSE ApplyItems(items, k + 1,
                  ApplyItem(items[k], k, st, operation, dry_run, on_conflict),
                  operation, dry_run, on_conflict)

\* rollback_import: one entry of the manifest
RollbackEntry(entry, st) ==
  IF entry.action = "create"
  THEN [st EXCEPT !.dst = Unlink(@, entry.dst)]
  ELSE IF entry.action = "move"
  THEN (IF entry.src # NoPath /\ Exists(st.dst, entry.dst)
        THEN [st EXCEPT !.src = WriteTo(@, entry.src, st.dst[entry.dst]),
                        !.dst = Unlink(@, entry.dst)]
        ELSE st)
  ELSE IF entry.action = "copy"
  THEN [st EXCEPT !.dst = Unlink(@, entry.dst)]
  ELSE st

\* rollback_import: the entries in reverse order, from entry k down
RECURSIVE RollbackEntries(_, _, _)
RollbackEntries(entries, k, st) ==
  IF k = 0 THEN st
  ELSE RollbackEntries(entries, k - 1, RollbackEntry(entries[k], st))

\* a source directory and a destination vault before an import; the vault holds
\* notes under ids of the plan, and under suffixed ids of "a" left by earlier imports
InitImport ==
  /\ \E present \in SUBSET SrcPaths :
       isrc = [p \in present |-> SrcFile(p)]
  /\ \E present \in SUBSET {k \in DstIds : k.n = 0 \/ (k.base = "a" /\ k.n <= MaxSuffix)} :
       idst = [k \in present |-> OldNote(k)]
  /\ imanifest = <<>>
  /\ icall = NoImport
  /\ ipre = NoSnapshot
  /\ irolled = NoRollback
  /\ ResolveAtRest
  /\ OpenAtRest
  /\ IndexAtRest
  /\ WatchAtRest
  /\ VaultAtRest
  /\ SliceAtRest

\* apply_import(plan, dst_vault, operation, dry_run, on_conflict) from call to return
ApplyImport(items, operation, dry_run, on_conflict) ==
  /\ icall.pc = "none"
  /\ LET start == [src |-> isrc, dst |-> idst, entries |-> <<>>, raised |-> "none", at |-> 0]
         end == ApplyItems(items, 1, start, operation, dry_run, on_conflict)
     IN /\ isrc' = end.src
        /\ idst' = end.dst
        /\ imanifest' = IF end.raised = "none" THEN end.entries ELSE <<>>
        /\ icall' = [pc |-> IF end.raised = "none" THEN "returned" ELSE "raised",
                     items |-> items, operation |-> operation, dry_run |-> dry_run,
                     on_conflict |-> on_conflict, raised |-> end.raised, at |-> end.at]
  /\ ipre' = [src |-> isrc, dst |-> idst]
  /\ UNCHANGED irolled
  /\ UNCHANGED <<rindex, rmode, rprefer, rres, rcall, dbfile, backups, clock, olast>>
  /\ UNCHANGED ivars
  /\ UNCHANGED wvars
  /\ UNCHANGED vvars
  /\ UNCHANGED svars

\* rollback_import(manifest, dry_run) on the manifest apply_import returned
RollbackImport(dry_run) ==
  /\ icall.pc = "returned"
  /\ irolled.n < MaxRollbacks
  /\ LET start == [src |-> isrc, dst |-> idst]
         end == IF dry_run THEN start ELSE RollbackEntries(imanifest, Len(imanifest), start)
     IN /\ isrc' = end.src
        /\ idst' = end.dst
        /\ irolled' = IF dry_run THEN irolled
                      ELSE [n |-> irolled.n + 1,
                            first |-> IF irolled.n = 0 THEN end ELSE irolled.first]
  /\ UNCHANGED <<imanifest, icall, ipre>>
  /\ UNCHANGED <<rindex, rmode, rprefer, rres, rcall, dbfile, backups, clock, olast>>
  /\ UNCHANGED ivars
  /\ UNCHANGED wvars
  /\ UNCHANGED vvars
  /\ UNCHANGED svars

NextImport ==
  \/ \E items \in Plans, operation \in Operations, dry_run \in BOOLEAN,
        on_conflict \in OnConflict : ApplyImport(items, operation, dry_run, on_conflict)
  \/ \E dry_run \in BOOLEAN : RollbackImport(dry_run)

SpecImport == InitImport /\ [][NextImport]_vars

\* ------------------------------------------------------- claims on the index
RebuildReturned == pc = "done" /\ op.name = "rebuild"

\* the ids indexed before the running operation whose file is gone
GoneIds == NotesIds(pre) \ ListIds(files)

\* C1: after a note's file is deleted and rebuild has run, the note is counted in
\* removed and no row of it is left: none in notes and fts, none in links with it
\* as src, none in blocks or kv, so links_in of another note holds no link from it
C1_DeletedNoteLeavesNoRows ==
  RebuildReturned =>
    /\ counts.removed = Cardinality(GoneIds)
    /\ \A i \in GoneIds :
         /\ RowsOf(db, i) = NoRows
         /\ \A j \in Ids \ {i} : \A l \in links_in(db, j) : l.src # i

\* C2: for an id that was not indexed, update_notes({id}, {}) followed by
\* update_notes({}, {id}) leaves no row for id in notes, blocks, links, kv or fts
C2_UpdateThenDeleteLeavesNoRows ==
  (pc = "done" /\ op.name = "update" /\ op.changed = {} /\ last # 0 /\ op.deleted = {last})
    => RowsOf(db, last) = NoRows

\* C3 as stated: after rebuild(full=true) the ids of the notes table are the ids of
\* vault.list_ids(), whatever the files contain
C3_FullRebuildIndexesEveryFile ==
  (RebuildReturned /\ op.full) => NotesIds(db) = ListIds(files)

\* C3 as amended: after rebuild(full=true) the ids of the notes table are the ids of
\* vault.list_ids() less the not yet indexed notes whose indexing failed in this run
C3_FullRebuildIndexesAllButFailed ==
  (RebuildReturned /\ op.full) =>
    NotesIds(db) = ListIds(files) \ (failedIds \ NotesIds(pre))

C3_Witness ==
  /\ RebuildReturned /\ op.full
  /\ failedIds \ NotesIds(pre) # {}
  /\ counts.removed > 0

\* C4: when _index_note fails after its transaction began, the index holds exactly
\* the rows it held when the upsert started, for every note and every table
C4_FailedUpsertLeavesPriorRows ==
  (pc = "ret" /\ ~success /\ failedAt = "rollback") => (db = upre /\ tx = upre)

C4_Witness ==
  /\ pc = "ret" /\ ~success /\ failedAt = "rollback" /\ undone
  /\ RowsOf(upre, cur) # NoRows

\* C5: while _index_note runs, a reader on its own connection sees for every note
\* either all rows as they were before the upsert or, for the note being indexed,
\* all rows as they are after it
C5_ReaderSeesNoPartialUpsert ==
  InIndexNote =>
    \A n \in Ids :
      \/ RowsOf(ReaderConn, n) = RowsOf(upre, n)
      \/ n = cur /\ RowsOf(ReaderConn, n) = NoteRows(cur, note)

C5_Witness ==
  /\ pc = "ins_links"
  /\ RowsOf(tx, cur) # RowsOf(upre, cur)
  /\ RowsOf(tx, cur) # NoteRows(cur, note)
  /\ RowsOf(ReaderConn, cur) = RowsOf(upre, cur)

\* C6: a note whose indexing fails during rebuild is counted in failed and does not
\* stop the rebuild: every dirty note was handed to _index_note, every one that did
\* not fail has its rows, and dirty = inserted + updated + failed
C6_FailedNoteDoesNotStopRebuild ==
  RebuildReturned =>
    /\ counts.dirty = counts.inserted + counts.updated + counts.failed
    /\ counts.failed = Cardinality(failedIds)
    /\ attempted = {i \in ListIds(files) : op.full \/ IsDirty(i, op.use_hash, pre, files)}
    /\ counts.dirty = Cardinality(attempted)
    /\ \A i \in attempted \ failedIds :
         RowsOf(db, i) = NoteRows(i, LoadNote(files[i], op.use_hash))

C6_Witness ==
  /\ RebuildReturned
  /\ counts.failed = 1
  /\ counts.inserted + counts.updated = 1
  /\ counts.dirty = 2

\* the notes with a file that have no notes row, or a notes row whose
\* (mtime_ns, size_bytes) is not the file's
StaleIds(d, fs) ==
  {i \in ListIds(fs) :
     \/ d.notes[i] = NoRow
     \/ <<d.notes[i].mtime, d.notes[i].size>> # FileStats(fs[i])}

\* C7 as stated: rebuild(full=false, use_hash=false) re-indexes exactly the notes
\* with a file that have no notes row or whose stored (mtime_ns, size_bytes) differs
\* from the file's; with two notes indexed and one file modified it reports
\* scanned 2, dirty 1, inserted 0, updated 1, removed 0, whatever the file now holds
C7_IncrementalReportsOneUpdated ==
  (RebuildReturned /\ ~op.full /\ ~op.use_hash) =>
    /\ attempted = StaleIds(pre, files)
    /\ (/\ NotesIds(pre) = Ids
        /\ ListIds(files) = Ids
        /\ Cardinality(StaleIds(pre, files)) = 1)
       => /\ counts.scanned = 2 /\ counts.dirty = 1 /\ counts.inserted = 0
          /\ counts.updated = 1 /\ counts.removed = 0

\* C7 as amended: rebuild(full=false, use_hash=false) re-indexes exactly the notes
\* with a file that have no notes row or whose stored (mtime_ns, size_bytes) differs
\* from the file's; with two notes indexed and one file modified it reports
\* scanned 2, dirty 1, inserted 0, removed 0, and updated 1 when the modified note
\* indexes, updated 0 and failed 1 when its indexing fails
C7_IncrementalReindexesStaleNotes ==
  (RebuildReturned /\ ~op.full /\ ~op.use_hash) =>
    /\ attempted = StaleIds(pre, files)
    /\ (/\ NotesIds(pre) = Ids
        /\ ListIds(files) = Ids
        /\ Cardinality(StaleIds(pre, files)) = 1)
       => /\ counts.scanned = 2 /\ counts.dirty = 1 /\ counts.inserted = 0
          /\ counts.removed = 0
          /\ counts.failed = Cardinality(failedIds)
          /\ counts.updated = 1 - counts.failed

C7_Witness ==
  /\ RebuildReturned /\ ~op.full /\ ~op.use_hash
  /\ NotesIds(pre) = Ids
  /\ counts = [scanned |-> 2, dirty |-> 1, inserted |-> 0, updated |-> 1,
               removed |-> 0, failed |-> 0]

\* ----------------------------------------------------- claims on the watcher
InFlush == tpc \in {"clear_added", "clear_modified", "clear_deleted", "call"}

\* C8: when the watcher flushes a batch, the batch handler is called with changed
\* equal to the union of the ids recorded as added or modified and with deleted equal
\* to the set of ids recorded as deleted since the previous flush, so every id whose
\* deletion event was accepted is in the deleted argument.
C8_BatchCarriesRecordedSets ==
  call.made => /\ call.changed = recorded.changed
               /\ call.deleted = recorded.deleted

\* C9: within one batch every id has a single classification: an id whose deletion is
\* seen after its creation or modification in the same batch is classified as deleted
\* only, so at flush no id is in both the changed set and the deleted set.
C9_DeletionOverridesChange ==
  [][\A i \in Ids : (i \notin deleted /\ i \in deleted')
                      => (i \notin added' /\ i \notin modified')]_vars

\* C10: the receiver thread and the debounce ticker access the batch state under
\* mutual exclusion, so no event recorded between flush's reading of the sets and its
\* clearing of them is lost: once flush has returned, such an event has been handed
\* to the batch handler or is still pending in its set.
C10_NoEventLostAcrossFlush ==
  ~InFlush =>
    \A e \in late :
      \/ e[1] = "created" /\ e[2] \in added
      \/ e[1] = "modified" /\ e[2] \in modified
      \/ e[1] = "deleted" /\ e[2] \in deleted

\* C11: on SIGINT or SIGTERM the watcher stops the event receiver before it flushes
\* the pending batch, so when watch_vault returns no accepted event is left in the
\* handler's sets without having been passed to the batch handler.
C11_NothingPendingAtReturn ==
  tpc = "exit" => added \cup modified \cup deleted = {}

\* C12: the watcher flushes on a tick only when the batch is not empty, and the
\* batch handler is never called with both of its sets empty.
C12_BatchHandlerNeverGetsEmptySets ==
  call.made => call.changed \cup call.deleted # {}

\* C13: if the notes table is empty when watch_vault starts, a full rebuild has
\* completed when the watcher accepts a filesystem event, for every combination of
\* quiet and json_output.
C13_EmptyIndexRebuiltBeforeEvents ==
  (count = 0 /\ rpc = "stamp") => rebuilt

\* positions of the main thread inside the while running loop and the flush it makes
LoopPositions ==
  {"loop", "sleep", "check", "flush", "clear_added", "clear_modified", "clear_deleted",
   "call"}

\* C14: when index.update_notes raises during a flush, the error is reported (an
\* error event in JSON mode, stderr otherwise) and the watcher keeps running: until
\* a signal ends it the main thread stays in its loop, where later batches are
\* flushed.
C14_BatchErrorReportedWatcherGoesOn ==
  /\ raised => out = (IF json_output THEN "error_event" ELSE "stderr")
  /\ (erred /\ running) => tpc \in LoopPositions

\* a batch was handed to update_notes without error after an earlier batch raised,
\* in quiet mode, and the watcher is still running
C14_Witness ==
  /\ erred /\ ~raised /\ call.made /\ call.changed # {}
  /\ quiet /\ running /\ tpc \in LoopPositions

\* an event the watcher has to ignore: for a directory, a hidden file, a temp or swap
\* artifact, or a file without the note extension
Ignored(e) ==
  \/ e.is_directory
  \/ e.name.prefix = "."
  \/ e.name.suffix \in {".md~", ".swp"} \/ e.name.prefix = ".#"
  \/ e.name.suffix # ".md"

\* C15: an event for a directory, a hidden file, a temp or swap artifact or a file
\* without the note extension leaves added, modified, deleted and last_event_time
\* unchanged, and the handler returns without a time stamp to set.
C15_IgnoredEventLeavesBatchAlone ==
  [][\A e \in Events :
       (Ignored(e) /\ Dispatch(e))
         => (UNCHANGED <<added, modified, deleted, last_event_time>> /\ rpc' = "idle")]_vars

\* an event was delivered and has left no trace in the batch
C15_Witness ==
  /\ nev = 1 /\ rpc = "idle"
  /\ added \cup modified \cup deleted = {} /\ last_event_time = 0
  /\ ~call.made /\ recorded = NoRecord

\* ------------------------------------------------- claims on cancellation
\* C16: a full rebuild checks a cancellation flag between per-note transactions:
\* once cancellation is requested during the rebuild, its loop hands no further note
\* to _index_note.
C16_CancelledRebuildStartsNoTransaction ==
  [][~ /\ cancelled_run = runs
       /\ op.name = "rebuild" /\ op.full
       /\ pc = "loop" /\ pc' = "load"]_vars

\* ------------------------------------------------------- claims on the vault
\* C17: Vault.put writes a note atomically: a concurrent reader of the same id gets
\* the complete contents the file had before the put or the complete new contents,
\* never an empty or truncated file.
C17_ReaderSeesOldOrNewContents ==
  got.text \in {got.old, got.new}

\* C18: after Vault.delete(id) the note's file no longer exists: get(id) returns
\* None, id is not in list_ids(), and a following rebuild removes id from the index.
C18_DeletedNoteIsGone ==
  vdel # 0 =>
    /\ files[vdel] = NoFile
    /\ VaultGet(files[vdel]) = "missing"
    /\ vdel \notin ListIds(files)
    /\ vreb => vdel \notin NotesIds(db)

\* ------------------------------------------------------ claims on the slicer
\* the heading block the anchor names: by its slug, or by its label
AnchoredHeading ==
  LET hit == {i \in HeadingLines(sraw) :
                \/ sanchor.kind = "heading" /\ Slug(sraw.lines[i]) = sanchor.value
                \/ sanchor.kind = "block" /\ FindLabel(sraw, sanchor.value) = i}
  IN IF hit = {} THEN 0 ELSE Min(hit)

\* C19: for a heading block found through a heading anchor or a block label,
\* slice_by_anchor returns start = the heading's range.start and end = range.start
\* of the first later heading whose level is less than or equal to the heading's, or
\* len(body.raw) when there is none.
C19_HeadingSliceEndsAtNextPeer ==
  (spc = "done" /\ AnchoredHeading # 0) =>
    LET i == AnchoredHeading
        later == {j \in HeadingLines(sraw) :
                    j > i /\ Level(sraw.lines[j]) <= Level(sraw.lines[i])}
    IN sres = Returned(BlockStart(sraw, i),
                       IF later = {} THEN RawLen(sraw) ELSE BlockStart(sraw, Min(later)))

\* C20: slice_by_anchor with no anchor returns (0, len(body.raw)) for every note,
\* whatever the body text begins with.
C20_NoAnchorSlicesWholeBody ==
  (spc = "done" /\ sanchor = NoAnchor) => sres = Returned(0, RawLen(sraw))

\* some block of the note matches the anchor: a heading block by its canonical slug,
\* any block by its label
AnchorMatches ==
  \/ /\ sanchor.kind = "heading"
     /\ \E i \in HeadingLines(sraw) : Slug(sraw.lines[i]) = sanchor.value
  \/ /\ sanchor.kind = "block"
     /\ \E i \in BlockLines(sraw) : BlockLabel(sraw, i) = sanchor.value

\* C21: with a non-null anchor slice_by_anchor returns (0, 0) if and only if no block
\* matches the anchor, and when a block matches the returned range satisfies
\* 0 <= start < end <= len(body.raw).
C21_EmptyRangeIffAnchorMissing ==
  (spc = "done" /\ sanchor # NoAnchor) =>
    /\ ~sres.raised
    /\ (sres = Returned(0, 0)) <=> ~AnchorMatches
    /\ AnchorMatches => (0 <= sres.start /\ sres.start < sres.end /\ sres.end <= RawLen(sraw))

\* C22: for every body text the blocks the parser produces are in strictly increasing
\* order of range.start, do not overlap, and lie within [0, len(body.raw)], also with
\* unclosed fences and heading-like lines inside fences.
C22_ParsedBlocksSortedDisjointInBody ==
  sparsed.done =>
    /\ ~sparsed.raised
    /\ \A i, j \in 1..Len(sparsed.blocks) :
         i < j => /\ sparsed.blocks[i].start < sparsed.blocks[j].start
                  /\ sparsed.blocks[i].end <= sparsed.blocks[j].start
    /\ \A i \in 1..Len(sparsed.blocks) :
         /\ 0 <= sparsed.blocks[i].start
         /\ sparsed.blocks[i].start <= sparsed.blocks[i].end
         /\ sparsed.blocks[i].end <= RawLen(sraw)

\* C26: anchor_ok(target) is true if and only if the anchor is null, or the note has a
\* block whose label equals a block anchor's value, or a heading block whose canonical
\* slug equals a heading anchor's value; so for an existing note it agrees with whether
\* slice_by_anchor finds the anchor.
C26_AnchorOkIffAnchorMatches ==
  /\ sok # "none" =>
       /\ sok \in {"true", "false"}
       /\ (sok = "true") <=> (sanchor = NoAnchor \/ AnchorMatches)
  /\ (sok # "none" /\ spc = "done" /\ sanchor # NoAnchor) =>
       ((sok = "true") <=> (~sres.raised /\ sres # Returned(0, 0)))

\* ------------------------------------------------- claims on link targets
\* the id and the anchor of an id-and-anchor part: split once on "#^" for a block
\* anchor, else once on "#" for a heading anchor, else the id alone
IdAndAnchor(part, rel, title_text) ==
  IF HashCaretPositions(part) # {}
  THEN LET i == Min(HashCaretPositions(part))
       IN LinkTarget(Strip(SubSeq(part, 1, i - 1)),
                     [kind |-> "block", value |-> Strip(SubSeq(part, i + 2, Len(part)))],
                     rel, title_text)
  ELSE IF Positions(part, "#") # {}
  THEN LET i == Min(Positions(part, "#"))
       IN LinkTarget(Strip(SubSeq(part, 1, i - 1)),
                     [kind |-> "heading", value |-> Strip(SubSeq(part, i + 1, Len(part)))],
                     rel, title_text)
  ELSE LinkTarget(Strip(part), NoLinkAnchor, rel, title_text)

\* C23: the parser derives the target from the inner text: `id#^label` gives a block
\* anchor, `id#slug` a heading anchor, `id|title` sets title_text, and
\* `rel:r|id|title` sets rel, id and title_text.
C23_TargetFollowsInnerText ==
  lpc = "done" =>
    LET t == Strip(linner)
        parts == Split(t, "|")
    IN /\ (StartsWithRel(t) /\ Len(parts) = 3) =>
            ltarget = IdAndAnchor(parts[2], Some(Strip(Tail(parts[1]))), Some(Strip(parts[3])))
       /\ (~StartsWithRel(t) /\ Len(parts) = 2) =>
            ltarget = IdAndAnchor(parts[1], None, Some(Strip(parts[2])))
       /\ (~StartsWithRel(t) /\ Len(parts) = 1) =>
            ltarget = IdAndAnchor(parts[1], None, None)

\* ------------------------------------------------------ claims on the resolver
\* the notes that match "Match" by an alias and by the title, in the categories the
\* mode lets in
AliasMatches ==
  IF rmode \in {"alias", "both"}
  THEN {i \in RIds : \E k \in 1..Len(rindex.aliases[i]) : rindex.aliases[i][k] = "Match"}
  ELSE {}
TitleMatches ==
  IF rmode \in {"title", "both"} THEN {i \in RIds : rindex.title[i] = "Match"} ELSE {}

\* C24: resolve_target returns the single matching id when exactly one note matches
\* overall, the id of the preferred category when there is exactly one title match and
\* exactly one alias match, and None when nothing matches or more than one note matches
\* within a category; a category that the mode excludes contributes no match.
C24_ResolveReturnsTheOneMatch ==
  rcall = "done" =>
    /\ Cardinality(AliasMatches \cup TitleMatches) = 1 =>
         rres \in AliasMatches \cup TitleMatches
    /\ (Cardinality(AliasMatches) = 1 /\ Cardinality(TitleMatches) = 1) =>
         rres \in (IF rprefer = "alias" THEN AliasMatches ELSE TitleMatches)
    /\ (AliasMatches \cup TitleMatches = {}
          \/ Cardinality(AliasMatches) > 1 \/ Cardinality(TitleMatches) > 1) => rres = 0

\* --------------------------------------------------- claims on the index file
\* the operation that has just returned found a file of one of the kinds, renamed it
\* to the backup of its timestamp, and completed on a fresh schema of version 2
RecoveredFrom(kinds) ==
  olast.pre \in kinds =>
    /\ ~olast.raised
    /\ olast.stamp \in backups
    /\ dbfile = Database(2, 1)

Upserted == op.changed \ failedIds

\* C27: update_notes returns counts that match what it did: removed is the number of
\* ids of deleted that had a notes row before the call, inserted + updated the number
\* of ids of changed that were upserted successfully, and an id counts as inserted
\* exactly when it had no notes row at the time of its upsert.
C27_UpdateCountsMatchWork ==
  (pc = "done" /\ op.name = "update") =>
    /\ counts.removed = Cardinality(op.deleted \cap NotesIds(pre))
    /\ counts.inserted + counts.updated = Cardinality(Upserted)
    /\ counts.inserted =
         Cardinality({i \in Upserted : i \notin NotesIds(pre) \/ i \in op.deleted})


\* the index agrees with the vault under change detection with use_hash = h: every file
\* has a notes row carrying the file's (mtime_ns, size_bytes), and its digest when h,
\* and there is no row without a file
InSync(d, fs, h) ==
  \A i \in Ids :
    IF fs[i] = NoFile THEN d.notes[i] = NoRow
    ELSE /\ d.notes[i] # NoRow
         /\ d.notes[i].mtime = FileStats(fs[i])[1]
         /\ d.notes[i].size = FileStats(fs[i])[2]
         /\ (h => d.notes[i].hash = ComputeHash(fs[i]))

NothingDone ==
  /\ counts.dirty = 0
  /\ counts.inserted = 0
  /\ counts.updated = 0
  /\ counts.removed = 0
  /\ db = pre

\* C28 as stated: an incremental rebuild, with or without use_hash, that follows any
\* operation that returned with no failed note, no file having changed in between,
\* reports dirty = inserted = updated = removed = 0 and leaves every table unchanged
C28_IncrementalRebuildIdempotent ==
  (pc = "done" /\ op.name = "rebuild" /\ ~op.full /\ okrun) => NothingDone

\* C28: a rebuild that returns with no failed note leaves the index in agreement with
\* the vault under its own use_hash mode, and an incremental rebuild that starts from an
\* index in agreement with the vault under its use_hash mode reports dirty = inserted =
\* updated = removed = 0 and leaves every table unchanged
C28_IncrementalRebuildIdempotentInSync ==
  /\ (pc = "done" /\ op.name = "rebuild" /\ failedIds = {}) => InSync(db, files, op.use_hash)
  /\ (pc = "done" /\ op.name = "rebuild" /\ ~op.full /\ InSync(pre, files, op.use_hash))
       => NothingDone

C28_Witness ==
  /\ pc = "done"
  /\ op.name = "rebuild"
  /\ ~op.full
  /\ op.use_hash
  /\ okrun
  /\ ListIds(files) # {}
  /\ InSync(pre, files, TRUE)
  /\ counts.scanned = Cardinality(ListIds(files))
  /\ NothingDone


\* ---------------------------------------------------- claims on the importer
\* the files as they are now
ImportFiles == [src |-> isrc, dst |-> idst]

\* C29: after apply_import has returned a manifest and rollback_import has run on it,
\* the destination vault holds exactly the note files it held before the import, and
\* after a "move" import every source file is at its path again; after the second
\* rollback the files are as the first one left them
C29_RollbackRestoresVaultAndSources ==
  (icall.pc = "returned" /\ irolled.n >= 1) =>
    /\ idst = ipre.dst
    /\ icall.operation = "move" =>
         \A p \in DOMAIN ipre.src : Exists(isrc, p)
    /\ irolled.n >= 2 => ImportFiles = irolled.first

\* C30: when apply_import raises, no file of the destination vault has been created or
\* changed and no source file has been removed, wherever the failing item is in the plan
C30_FailedImportChangesNothing ==
  icall.pc = "raised" => ImportFiles = ipre

====
